---- MODULE Spec2Model ----
(***************************************************************************)
(* Mapping dispatch and offset-commit coordination.                        *)
(*                                                                         *)
(*   src/mapping3.py  Result, AsyncOrenctlEngine.ingest, run_playbook,     *)
(*                    process_mappings_async                               *)
(*   src/mapping4.py  process_single_mapping and the thread-pool,          *)
(*                    multiprocessing, batched and rate-limited executors  *)
(*   src/alert_with_events.py  create_alerts_batch                         *)
(*   src/mapping1.py, src/mapping2.py  MappingRetriever,                   *)
(*                    modify_get_and_transform_mappings                    *)
(*   src/unnamed/part_000  create_alerts_batch (multi-tenant)              *)
(*   src/updated-env-vars-code.py  the script-execution loop               *)
(*                                                                         *)
(* Spec        the coordinator: one call of process_mappings_async or of   *)
(*             one of the executors of mapping4.py                         *)
(* SpecFair    process_mappings_async and process_single_mapping, each     *)
(*             called once, under fairness                                 *)
(* SpecEngine  the engine calls run_playbook and ingest applied to inputs  *)
(*             drawn from bounded sets                                     *)
(* SpecLoop    several calls of process_mappings_async for events of one   *)
(*             partition, run by one event loop                            *)
(* SpecEvent   process_mapping_with_threads: the worker threads and the    *)
(*             event dict they share                                       *)
(* SpecAlerts  create_alerts_batch and the records store                   *)
(* SpecCache   MappingRetriever.get_mappings, its Redis cache and the      *)
(*             Postgres table behind it                                    *)
(* SpecRefresh modify_get_and_transform_mappings called again and again    *)
(*             with one tenant_info while time passes                      *)
(* SpecEntities  the entity loop of create_alerts_batch and of             *)
(*             create_alert_with_entity, for the entities of one body      *)
(* SpecBatch   the multi-tenant create_alerts_batch(body)                  *)
(* SpecScript  the script-execution loop and os.environ                    *)
(*                                                                         *)
(* Time is counted in milliseconds, as process_mappings_async does         *)
(* (time.time() * 1000).                                                   *)
(***************************************************************************)
EXTENDS Integers, Sequences, FiniteSets, TLC

\* Python's None
NoneVal == "None"

(***************************************************************************)
(* class Result                                                            *)
(***************************************************************************)
SUCCEED == "SUCCEED"
INVALID_EVENT == "INVALID_EVENT"
ENGINE_INTERNAL_ERROR == "ENGINE_INTERNAL_ERROR"
ENGINE_CONNECTION_ERROR == "ENGINE_CONNECTION_ERROR"
TIMEOUT == "TIMEOUT"
UNDEFINED_ERROR == "UNDEFINED_ERROR"

Result ==
  {SUCCEED, INVALID_EVENT, ENGINE_INTERNAL_ERROR, ENGINE_CONNECTION_ERROR,
   TIMEOUT, UNDEFINED_ERROR}

\* the set both retry loops test the engine's result against
result_for_retry == {ENGINE_INTERNAL_ERROR, ENGINE_CONNECTION_ERROR, TIMEOUT}

\* what a call leaves behind when an exception escapes it
RAISED == "RAISED"

(***************************************************************************)
(* Optional[...] arguments: Absent is Python's None, Some(x) a value.      *)
(***************************************************************************)
Absent == << >>
Some(x) == <<x>>
IsSome(o) == o # Absent
Get(o) == o[1]

(***************************************************************************)
(* The engine calls.  The network's answer to one POST is an input:        *)
(* an HTTP status, or the exception the client library raises.             *)
(***************************************************************************)
HttpStatuses == {200, 500, 404}
ClientConnectionError == "ClientConnectionError"
TimeoutError == "TimeoutError"
OtherError == "OtherError"
NetOutcomes ==
  {[status |-> s] : s \in HttpStatuses}
    \cup {[exc |-> e] : e \in {ClientConnectionError, TimeoutError, OtherError}}

\* (the ladder without its `except asyncio.TimeoutError` clause: a timeout
\* falls to `except Exception`)
ClassifyTimeoutAsUndefined(net) ==
  IF "status" \in DOMAIN net
  THEN CASE net.status = 200 -> SUCCEED
         [] net.status = 500 -> ENGINE_INTERNAL_ERROR
         [] OTHER -> NoneVal
  ELSE CASE net.exc = ClientConnectionError -> ENGINE_CONNECTION_ERROR
         [] OTHER -> UNDEFINED_ERROR

\* the status / exception ladder shared by ingest and run_playbook: a status
\* other than 200 and 500 leaves the function without a return statement
ClassifyResponse(net) ==
  IF "status" \in DOMAIN net
  THEN CASE net.status = 200 -> SUCCEED
         [] net.status = 500 -> ENGINE_INTERNAL_ERROR
         [] OTHER -> NoneVal
  ELSE CASE net.exc = ClientConnectionError -> ENGINE_CONNECTION_ERROR
         [] net.exc = TimeoutError -> TIMEOUT
         [] OTHER -> UNDEFINED_ERROR

\* Python truthiness of an optional string
Truthy(v) == v # NoneVal /\ v # ""

\* Python's `a or b`
PyOr(a, b) == IF Truthy(a) THEN a ELSE b

\* a call's outcome: the value returned (ret), or RAISED; the number of POSTs
\* made; the extra_info left on the event (NoneVal when it was not written)
Outcome(ret, calls, extra) == [ret |-> ret, calls |-> calls, extra_info |-> extra]

\* the playbook id run_playbook ends with: the argument, else event.data's
\* (event.data is Absent, or Some record; an empty dict counts as Absent)
ResolvedPlaybookId(event, playbook_id) ==
  IF IsSome(event.data) THEN PyOr(playbook_id, Get(event.data).playbook_id)
  ELSE playbook_id

\* the test that aborts run_playbook before any request is built
PlaybookIdMissing(event, playbook_id) ==
  ~Truthy(ResolvedPlaybookId(event, playbook_id))

\* the two tenant_info["..."] subscripts that open run_playbook; tenant_info
\* is given by the set of keys it holds
TenantKeysMissing(tenant_info) ==
  "tenant_id" \notin tenant_info \/ "engine_api_uri" \notin tenant_info

\* run_playbook(event, tenant_info, playbook_id, config_id, extra_info)
run_playbook(event, tenant_info, playbook_id, extra_info, net) ==
  IF TenantKeysMissing(tenant_info)
  THEN Outcome(RAISED, 0, NoneVal)
  ELSE IF PlaybookIdMissing(event, playbook_id)
  THEN Outcome(INVALID_EVENT, 0, NoneVal)
  ELSE Outcome(ClassifyResponse(net), 1, extra_info)

\* AsyncOrenctlEngine.ingest(payload, tenant_info, tenant)
ingest(net) == Outcome(ClassifyResponse(net), 1, NoneVal)

(***************************************************************************)
(* Inputs of the engine calls.                                             *)
(***************************************************************************)
PlaybookIds == {NoneVal, "", "pb-1"}
EventData == {[playbook_id |-> p] : p \in PlaybookIds}
Events == [tenant : {NoneVal, "t1"}, data : {Absent} \cup {Some(d) : d \in EventData}]
TenantInfos == SUBSET {"tenant_id", "engine_api_uri"}
MappingIds == {"m1", "m2"}

(***************************************************************************)
(* The coordinator's inputs.                                               *)
(***************************************************************************)
\* most mappings matched by one event
MaxMappings == 2
\* largest worker / wave limit handed to an executor
MaxWorkers == 2

max_retries == 3

AOENGINE == "aoengine"
ORENCTL == "orenctl"
OtherType(t) == IF t = AOENGINE THEN ORENCTL ELSE AOENGINE

\* matched mappings: ids 1..n, playbook types alternating from `first`
MappingList(n, first) ==
  [i \in 1..n |->
     [id |-> i, playbook_type |-> IF i % 2 = 1 THEN first ELSE OtherType(first)]]
MappingLists ==
  {MappingList(n, first) : n \in 1..MaxMappings, first \in {AOENGINE, ORENCTL}}

Offsets == {Absent, Some(7), Some(42)}
KafkaClients == {Absent, Some("kafka_client")}
\* the commit deadline, in epoch milliseconds
TimeCommits == {Absent, Some(6000)}
\* the clock readings (time.time() * 1000) a run may see: 5.0 s, 1.0 s and
\* 1 ms before the deadline above, and 1 ms after it
NowValues == {1000, 5000, 5999, 6001}
FirstNow == CHOOSE t \in NowValues : \A u \in NowValues : t <= u

\* what one dispatch of a mapping can hand back to the retry loop: a value of
\* the engine call, or an exception (of the call or of the payload helpers)
AoengineOutcomes ==
  {run_playbook(e, ti, p, NoneVal, net).ret :
     e \in Events, ti \in TenantInfos, p \in PlaybookIds, net \in NetOutcomes}
    \cup {RAISED}
OrenctlOutcomes == {ingest(net).ret : net \in NetOutcomes} \cup {RAISED}
DispatchOutcomes(mapping) ==
  IF mapping.playbook_type = AOENGINE THEN AoengineOutcomes ELSE OrenctlOutcomes

(***************************************************************************)
(* State.                                                                  *)
(***************************************************************************)
VARIABLES
  entry,            \* the function that was called
  matched_mappings, \* its list of mappings
  kafka_client,     \* process_mappings_async's arguments ...
  offset,
  time_commit,
  now,              \* time.time() * 1000
  mapping_idx,      \* process_mappings_async's locals: the for loop's place,
  next_condition,
  retry_count,
  pc,               \* where process_mappings_async stands
  commits,          \* the _commit calls the stream client received, in order
  task,             \* per mapping: its state, its result, its retry loop's frame
  max_workers,      \* the executors' limit (max_workers, batch_size, max_concurrent)
  wave_start,       \* the executors' locals: first mapping of the current wave,
  submitted,        \* mappings handed to executor.submit,
  finished,         \* futures that hold their result (or their exception),
  completion,       \* the same, in the order in which they finished,
  early,            \* futures as_completed found finished when it was called,
  yielded,          \* futures as_completed has handed over,
  results,          \* the results list
  pool_pc,          \* where the executor function stands
  call,             \* SpecEngine: the engine call under test and its outcome
  loop,             \* SpecLoop: the event loop and the coroutines it runs
  shared_event,     \* SpecEvent: the event dict the worker threads are handed,
  thread,           \* and where each thread stands
  alerts_len,       \* SpecAlerts: len(alerts_data),
  alert_idx,        \* the place of create_alerts_batch's for loop (from 1),
  alert_item,       \* the item of the pass just made,
  item_calls,       \* the calls that pass made, in order,
  batch_results,    \* the results dict,
  records_store,    \* the store: its rows and the commit / rollback calls it got,
  batch_pc,         \* "for": in the loop; "return": the function has returned
  retriever,        \* SpecCache: the file whose MappingRetriever is in use,
  pg_rows,          \* the rows of the Postgres mappings table,
  redis_cache,      \* the Redis entry of each tenant's key,
  got,              \* the latest get_mappings call: arguments, steps and result
  tenant_info,      \* SpecRefresh: the tenant_info dict of the caller,
  refreshed,        \* the latest modify_get_and_transform_mappings call
  entity_loop,      \* SpecEntities: the entity loop of one alert body,
  environ,          \* SpecScript: os.environ,
  backup_env_vars,  \* the copy of it taken at startup,
  script            \* and where the script loop stands

vars ==
  <<entry, matched_mappings, kafka_client, offset, time_commit, now, mapping_idx,
    next_condition, retry_count, pc, commits, task, max_workers, wave_start,
    submitted, finished, completion, early, yielded, results, pool_pc, call, loop,
    shared_event, thread, alerts_len, alert_idx, alert_item, item_calls, batch_results,
    records_store, batch_pc, retriever, pg_rows, redis_cache, got, tenant_info,
    refreshed, entity_loop, environ, backup_env_vars, script>>

args == <<entry, matched_mappings, kafka_client, offset, time_commit, max_workers>>
asyncLocals == <<mapping_idx, next_condition, retry_count, pc>>
poolLocals ==
  <<wave_start, submitted, finished, completion, early, yielded, results, pool_pc>>
\* the variables of the other specifications
eventLocals == <<shared_event, thread>>
alertLocals ==
  <<alerts_len, alert_idx, alert_item, item_calls, batch_results, records_store, batch_pc>>
cacheLocals == <<retriever, pg_rows, redis_cache, got, tenant_info, refreshed>>
scriptLocals == <<environ, backup_env_vars, script>>
harnessLocals == <<entity_loop, scriptLocals>>
aside == <<call, loop, eventLocals, alertLocals, cacheLocals, harnessLocals>>

PROCESS_MAPPINGS_ASYNC == "process_mappings_async"
PROCESS_SINGLE_MAPPING == "process_single_mapping"
WITH_THREADS == "process_mapping_with_threads"
IN_BATCHES == "process_mapping_in_batches"
WITH_RATE_LIMIT == "process_mapping_with_rate_limit"
WITH_MULTIPROCESSING == "process_mapping_with_multiprocessing"
Executors == {WITH_THREADS, WITH_MULTIPROCESSING, IN_BATCHES, WITH_RATE_LIMIT}

\* task states
PENDING == "PENDING"
DISPATCHING == "DISPATCHING"
RETRY_WAIT == "RETRY_WAIT"
DONE == "DONE"

NoOutcome == "NoOutcome"
NoResult == "NoResult"

\* A mapping's bookkeeping before its first dispatch: st and result (what
\* process_single_mapping returned) stay; the rest is the frame of the
\* mapping's retry loop, which lives until the loop is left: attempt (the for
\* loop's counter), calls (engine calls made), retryables (retryable results
\* among them), last (the latest outcome: the value of res, or RAISED),
\* inflight (engine calls of the mapping started and not yet returned), delay
\* (the seconds of the sleep the loop stands in, 0 when it does not sleep),
\* commit_error (that sleep follows a _commit call that raised).
NewTask ==
  [st |-> PENDING, result |-> NoResult, attempt |-> 0, calls |-> 0,
   retryables |-> 0, last |-> NoOutcome, inflight |-> 0, delay |-> 0,
   commit_error |-> FALSE]

\* the frame is gone once the loop is left
DropFrame(t) ==
  [t EXCEPT !.attempt = 0, !.calls = 0, !.retryables = 0, !.last = NoOutcome]

Mappings == DOMAIN matched_mappings

NoCall == [fn |-> "none"]
NoLoop == [running |-> 0]
NoEvent == [extra_info |-> NoneVal]

\* no thread shares an event
EventIdle == shared_event = NoEvent /\ thread = << >>

NoItem == [tenant |-> NoneVal]
NoResults == [success |-> << >>, failed |-> << >>]
EmptyStore == [pending |-> {}, committed |-> {}, closing |-> << >>]

\* create_alerts_batch was not called
AlertsIdle ==
  /\ alerts_len = 0
  /\ alert_idx = 1
  /\ alert_item = NoItem
  /\ item_calls = << >>
  /\ batch_results = NoResults
  /\ records_store = EmptyStore
  /\ batch_pc = "idle"

NoRetriever == "none"
NoGet == [tenant_id |-> NoneVal]
NoTenantInfo == [tenant_id |-> NoneVal]
NoRefresh == [now |-> 0, called |-> FALSE]

\* modify_get_and_transform_mappings was not called
RefreshIdle == tenant_info = NoTenantInfo /\ refreshed = NoRefresh

NoEntityLoop == [pc |-> "idle"]
NoScript == [pc |-> "idle"]

\* the entity loop was not entered
EntitiesIdle == entity_loop = NoEntityLoop

\* the script loop was not started
ScriptIdle == environ = << >> /\ backup_env_vars = << >> /\ script = NoScript

HarnessIdle == EntitiesIdle /\ ScriptIdle

\* no MappingRetriever was constructed
CacheIdle ==
  /\ retriever = NoRetriever
  /\ pg_rows = << >>
  /\ redis_cache = << >>
  /\ got = NoGet
  /\ RefreshIdle

(***************************************************************************)
(* process_mappings_async: one mapping after the other, each in a retry    *)
(* loop.  pc names the statement the coroutine stands at:                  *)
(*   "for"  the for statement      "while"  the while test                 *)
(*   "dispatch"  awaiting run_playbook / engine.ingest                     *)
(*   "retry_sleep"  asyncio.sleep(1) of the retry branch                   *)
(*   "commit_error_sleep"  asyncio.sleep(10) after a failed commit         *)
(*   "except_sleep"  asyncio.sleep(1) of the outer except                  *)
(*   "return"  the function has returned     "idle"  it was not called     *)
(***************************************************************************)
\* (the while test with <= for <: one attempt too many)
LoopContinuesOnceMore(nc, rc) == ~nc /\ rc <= max_retries

\* the while statement's condition
LoopContinues(nc, rc) == ~nc /\ rc < max_retries

\* (the retry branch committing on the first retry only)
CommitsOnFirstRetryOnly(client) == IsSome(client) /\ retry_count = 0

\* `if kafka_client:` of the retry branch
CommitsOnRetry(client) == IsSome(client)

\* the offset the terminal branch commits (offset + 1)
NextOffset(o) == Some(Get(o) + 1)

\* (the retry branch committing offset + 1, as the terminal branch does)
RetryCommitsNextOffset(o) == IF IsSome(o) THEN NextOffset(o) ELSE o

\* the offset the retry branch commits
RetryCommitOffset(o) == o

\* (no deadline taken for a deadline that is far away)
NoDeadlineNoHurry(tc, t) == IF IsSome(tc) /\ Get(tc) # 0 THEN Get(tc) - t ELSE 1000000

\* timeleft = time_commit - time.time() * 1000 if time_commit else 0
TimeLeft(tc, t) == IF IsSome(tc) /\ Get(tc) # 0 THEN Get(tc) - t ELSE 0

\* timeleft < 1.5
CommitIsUrgent(timeleft) == 2 * timeleft < 3

\* one kafka_client._commit({partition: o}) call, as the client receives it
CommitCall(o) == [by |-> mapping_idx, offset |-> o]

\* asyncio.sleep(1) of the retry branch, in seconds: the same after every attempt
RetryDelay(attempt) == 1

\* asyncio.sleep(1) of the outer except
ExceptDelay == 1

\* asyncio.sleep(10) after a failed commit of offset + 1
CommitErrorDelay == 10

\* (an attempt that is not waited for: it stays out when the next one starts)
CallStaysOut(t) == t

\* the engine call of the frame has come back
CallReturned(t) == [t EXCEPT !.inflight = @ - 1]

\* the frame's loop goes to sleep for d seconds
Sleeping(t, d, after_commit_error) ==
  [t EXCEPT !.delay = d, !.commit_error = after_commit_error]

\* the sleep is over
Awake(t) == [t EXCEPT !.delay = 0, !.commit_error = FALSE]

\* The offset the else branch keeps for a later commit when the deadline is
\* not near: none.  The branch only sets next_condition; the function returns
\* None and hands offset + 1 to nobody.
PendingCommit == Absent

\* (a retry count carried over from the mapping before)
KeptRetryCount == retry_count

\* retry_count = 0 at the head of the for loop's body
FreshRetryCount == 0

\* (a sleep that never returns)
StillAsleep == pc

\* the statement after a sleep: the while test
AfterSleep == "while"

ForMapping ==
  /\ entry = PROCESS_MAPPINGS_ASYNC
  /\ pc = "for"
  /\ IF mapping_idx \in Mappings
     THEN /\ next_condition' = FALSE
          /\ retry_count' = FreshRetryCount
          /\ pc' = "while"
     ELSE /\ pc' = "return"
          /\ UNCHANGED <<next_condition, retry_count>>
  /\ task' = [m \in Mappings |-> IF m < mapping_idx THEN DropFrame(task[m]) ELSE task[m]]
  /\ UNCHANGED <<args, now, mapping_idx, commits, poolLocals, aside>>

\* the while test: start the next attempt, or leave the loop ("Next event.")
WhileTest ==
  /\ entry = PROCESS_MAPPINGS_ASYNC
  /\ pc = "while"
  /\ IF LoopContinues(next_condition, retry_count)
     THEN /\ pc' = "dispatch"
          /\ task' = [task EXCEPT ![mapping_idx].st = DISPATCHING,
                                  ![mapping_idx].calls = @ + 1,
                                  ![mapping_idx].inflight = @ + 1]
          /\ UNCHANGED mapping_idx
     ELSE /\ pc' = "for"
          /\ task' = [task EXCEPT ![mapping_idx].st = DONE]
          /\ mapping_idx' = mapping_idx + 1
  /\ UNCHANGED <<args, now, next_condition, retry_count, commits, poolLocals, aside>>

\* the retry branch: commit the current offset, count the retry, sleep
RetryBranch(out, commit_fails) ==
  /\ retry_count' = retry_count + 1
  /\ UNCHANGED next_condition
  /\ IF CommitsOnRetry(kafka_client)
     THEN /\ commits' = Append(commits, CommitCall(RetryCommitOffset(offset)))
          /\ pc' = IF commit_fails THEN "except_sleep" ELSE "retry_sleep"
     ELSE /\ UNCHANGED commits
          /\ pc' = "retry_sleep"
  /\ LET t == CallReturned(task[mapping_idx])
         asleep == IF CommitsOnRetry(kafka_client) /\ commit_fails
                   THEN Sleeping(t, ExceptDelay, TRUE)
                   ELSE Sleeping(t, RetryDelay(retry_count), FALSE)
     IN task' = [task EXCEPT ![mapping_idx] =
                   [asleep EXCEPT !.st = RETRY_WAIT, !.retryables = @ + 1, !.last = out]]

\* the else branch: commit offset + 1 when the deadline is near
TerminalBranch(out, commit_fails) ==
  LET t == CallReturned(task[mapping_idx]) IN
  IF ~CommitIsUrgent(TimeLeft(time_commit, now))
  THEN /\ next_condition' = TRUE
       /\ pc' = "while"
       /\ UNCHANGED <<retry_count, commits>>
       /\ task' = [task EXCEPT ![mapping_idx] = [t EXCEPT !.st = DONE, !.last = out]]
  ELSE IF ~IsSome(offset)
  THEN \* offset + 1 of the log line raises outside the inner try
       /\ retry_count' = retry_count + 1
       /\ pc' = "except_sleep"
       /\ UNCHANGED <<next_condition, commits>>
       /\ task' = [task EXCEPT ![mapping_idx] =
                     [Sleeping(t, ExceptDelay, FALSE) EXCEPT !.st = RETRY_WAIT, !.last = out]]
  ELSE IF ~IsSome(kafka_client)
  THEN \* None._commit raises inside the inner try
       /\ pc' = "commit_error_sleep"
       /\ UNCHANGED <<next_condition, retry_count, commits>>
       /\ task' = [task EXCEPT ![mapping_idx] =
                     [Sleeping(t, CommitErrorDelay, FALSE) EXCEPT !.st = DONE, !.last = out]]
  ELSE /\ commits' = Append(commits, CommitCall(NextOffset(offset)))
       /\ IF commit_fails
          THEN pc' = "commit_error_sleep" /\ UNCHANGED next_condition
          ELSE pc' = "while" /\ next_condition' = TRUE
       /\ UNCHANGED retry_count
       /\ task' = [task EXCEPT ![mapping_idx] =
                     [(IF commit_fails THEN Sleeping(t, CommitErrorDelay, TRUE) ELSE t)
                        EXCEPT !.st = DONE, !.last = out]]

\* the outer except: count the retry, sleep
ExceptBranch ==
  /\ retry_count' = retry_count + 1
  /\ pc' = "except_sleep"
  /\ UNCHANGED <<next_condition, commits>>
  /\ task' = [task EXCEPT ![mapping_idx] =
                [Sleeping(CallReturned(@), ExceptDelay, FALSE)
                   EXCEPT !.st = RETRY_WAIT, !.last = RAISED]]

\* the awaited engine call comes back; everything up to the next await
DispatchReturn ==
  /\ entry = PROCESS_MAPPINGS_ASYNC
  /\ pc = "dispatch"
  /\ \E out \in DispatchOutcomes(matched_mappings[mapping_idx]), commit_fails \in BOOLEAN :
       CASE out = RAISED -> ExceptBranch
         [] out \in result_for_retry -> RetryBranch(out, commit_fails)
         [] OTHER -> TerminalBranch(out, commit_fails)
  /\ UNCHANGED <<args, now, mapping_idx, poolLocals, aside>>

\* a sleep ends; after the commit-error pause the else branch finishes
Wake ==
  /\ entry = PROCESS_MAPPINGS_ASYNC
  /\ pc \in {"retry_sleep", "commit_error_sleep", "except_sleep"}
  /\ next_condition' = IF pc = "commit_error_sleep" THEN TRUE ELSE next_condition
  /\ pc' = AfterSleep
  /\ task' = [task EXCEPT ![mapping_idx] = Awake(@)]
  /\ UNCHANGED <<args, now, mapping_idx, retry_count, commits, poolLocals, aside>>

\* time passes while the coroutine is suspended
Tick ==
  /\ entry = PROCESS_MAPPINGS_ASYNC
  /\ pc \in {"dispatch", "retry_sleep", "commit_error_sleep", "except_sleep"}
  /\ \E t \in NowValues : t > now /\ now' = t
  /\ UNCHANGED <<args, asyncLocals, commits, task, poolLocals, aside>>

AsyncNext == ForMapping \/ WhileTest \/ DispatchReturn \/ Wake \/ Tick

InitAsync ==
  /\ entry = PROCESS_MAPPINGS_ASYNC
  /\ matched_mappings \in MappingLists
  /\ kafka_client \in KafkaClients
  /\ offset \in Offsets
  /\ time_commit \in TimeCommits
  /\ now = FirstNow
  /\ mapping_idx = 1
  /\ next_condition = FALSE
  /\ retry_count = 0
  /\ pc = "for"
  /\ commits = << >>
  /\ task = [m \in Mappings |-> NewTask]
  /\ max_workers = 0
  /\ wave_start = 1
  /\ submitted = {}
  /\ finished = {}
  /\ completion = << >>
  /\ early = {}
  /\ yielded = {}
  /\ results = << >>
  /\ pool_pc = "idle"
  /\ call = NoCall
  /\ loop = NoLoop
  /\ EventIdle
  /\ AlertsIdle
  /\ CacheIdle
  /\ HarnessIdle

(***************************************************************************)
(* process_single_mapping, run by an executor's worker thread.             *)
(***************************************************************************)
\* for attempt in range(max_retries)
AttemptsLeft(attempt) == attempt < max_retries

\* `res not in {...}`: the result ends the loop and is returned
ReturnsAtOnce(r) == r \notin result_for_retry

\* (the last engine result handed back once the attempts are used up)
ExhaustedReturnsLast(last) == last

\* the return statement after the loop
ExhaustedResult(last) == UNDEFINED_ERROR

\* The outcome of an engine call, entered in the frame.  The executors run
\* several frames at once; there only the program's own state is kept, and
\* the outcomes are entered for the directly called process_single_mapping.
Note(t, out) ==
  IF entry \in Executors THEN t
  ELSE [t EXCEPT !.last = out,
                 !.retryables = IF out \in result_for_retry THEN @ + 1 ELSE @]

\* the loop moves to its next attempt: another engine call, or the final return
NextAttempt(t) ==
  IF AttemptsLeft(t.attempt + 1)
  THEN [t EXCEPT !.attempt = @ + 1, !.calls = @ + 1, !.inflight = @ + 1,
                 !.st = DISPATCHING]
  ELSE [t EXCEPT !.attempt = @ + 1, !.st = DONE, !.result = ExhaustedResult(t.last)]

\* time.sleep(2 ** attempt), in seconds
BackoffDelay(attempt) == 2 ^ attempt

\* An error of the engine call is stopped by `except Exception` and logged;
\* `escapes` says that the call of process_single_mapping ends by an exception
\* all the same: one raised outside the body of its try statement.
Escapes(escapes) == escapes

\* the call of process_single_mapping ended by an exception: future.result()
\* raises it again
FutureRaised(t) == t.result = RAISED

(***************************************************************************)
(* The executors of optimize_mapping_processing.  pool_pc names the        *)
(* statement the calling thread stands at: "submit" (executor.submit of    *)
(* the wave's mappings), "collect" (the as_completed loop), "sleep"        *)
(* (time.sleep(min_interval)), "return", "raised" (the function ended by   *)
(* an exception); "idle" when no executor runs.                            *)
(***************************************************************************)
\* ThreadPoolExecutor() without max_workers: min(32, cpu_count + 4), at least
DefaultPoolWorkers == 5

\* the worker threads of the executor the function creates
PoolSize ==
  IF entry = IN_BATCHES THEN DefaultPoolWorkers ELSE max_workers

\* (no waves: the executor is given the whole list at once)
AllAtOnce == Mappings

\* (a slice one mapping too long: matched_mappings[i:i+size+1])
SliceOneTooLong == {m \in Mappings : wave_start <= m /\ m <= wave_start + max_workers}

\* the slice of matched_mappings the current executor is given
Wave ==
  IF entry \in {WITH_THREADS, WITH_MULTIPROCESSING} THEN Mappings
  ELSE {m \in Mappings : wave_start <= m /\ m < wave_start + max_workers}

\* mappings a worker thread is busy with
Running ==
  {m \in Mappings : task[m].st \in {DISPATCHING, RETRY_WAIT}
                      \/ (task[m].st = DONE /\ m \notin finished)}
InDispatch == {m \in Mappings : task[m].st = DISPATCHING}

\* (an executor that starts every submitted call at once)
WorkerAlwaysFree == TRUE

\* a worker thread is idle (or may still be created)
WorkerFree == Cardinality(Running) < PoolSize

\* as_completed(fs) begins with the futures of fs that are finished when it
\* is called; pool.starmap looks at no future
AlreadyFinished ==
  IF entry = WITH_MULTIPROCESSING THEN {} ELSE Wave \cap finished

\* executor.submit(process_single_mapping, mapping, ...), in list order (the
\* tasks pool.starmap queues); then the calling thread collects
Submit ==
  /\ entry \in Executors
  /\ pool_pc = "submit"
  /\ LET todo == Wave \ submitted IN
       IF todo = {}
       THEN /\ pool_pc' = "collect"
            /\ early' = AlreadyFinished
            /\ UNCHANGED submitted
       ELSE /\ submitted' = submitted \cup {CHOOSE m \in todo : \A k \in todo : m <= k}
            /\ UNCHANGED <<pool_pc, early>>
  /\ UNCHANGED <<args, now, asyncLocals, commits, task, wave_start, finished, completion,
                 yielded, results, aside>>

\* a worker takes the oldest queued mapping and makes its first engine call
WorkerTakes ==
  /\ entry \in Executors
  /\ WorkerFree
  /\ LET queued == {m \in submitted : task[m].st = PENDING} IN
       /\ queued # {}
       /\ LET m == CHOOSE q \in queued : \A k \in queued : q <= k IN
            task' = [task EXCEPT ![m].st = DISPATCHING, ![m].calls = @ + 1,
                                 ![m].inflight = @ + 1]
  /\ UNCHANGED <<args, now, asyncLocals, commits, poolLocals, aside>>

\* process_single_mapping called directly, for the one mapping it is given
CallSingle ==
  /\ entry = PROCESS_SINGLE_MAPPING
  /\ task[1].st = PENDING
  /\ task' = [task EXCEPT ![1].st = DISPATCHING, ![1].calls = @ + 1,
                          ![1].inflight = @ + 1]
  /\ UNCHANGED <<args, now, asyncLocals, commits, poolLocals, aside>>

\* the engine call of mapping m comes back
EngineReturns(m) ==
  /\ entry \in Executors \cup {PROCESS_SINGLE_MAPPING}
  /\ task[m].st = DISPATCHING
  /\ \E out \in DispatchOutcomes(matched_mappings[m]), escapes \in BOOLEAN :
       LET t == Note(CallReturned(task[m]), out) IN
         task' =
           [task EXCEPT ![m] =
              IF out = RAISED
              THEN IF Escapes(escapes)
                   THEN [t EXCEPT !.st = DONE, !.result = RAISED]
                   ELSE NextAttempt(t)
              ELSE IF ReturnsAtOnce(out)
              THEN [t EXCEPT !.st = DONE, !.result = out]
              ELSE [Sleeping(t, BackoffDelay(t.attempt), FALSE) EXCEPT !.st = RETRY_WAIT]]
  /\ UNCHANGED <<args, now, asyncLocals, commits, poolLocals, aside>>

\* time.sleep(2 ** attempt) of mapping m ends
BackoffEnds(m) ==
  /\ entry \in Executors \cup {PROCESS_SINGLE_MAPPING}
  /\ task[m].st = RETRY_WAIT
  /\ task' = [task EXCEPT ![m] = NextAttempt(Awake(@))]
  /\ UNCHANGED <<args, now, asyncLocals, commits, poolLocals, aside>>

\* process_single_mapping(m) has returned: the worker stores the result in
\* the future and is free again
FutureDone(m) ==
  /\ entry \in Executors
  /\ task[m].st = DONE
  /\ m \notin finished
  /\ finished' = finished \cup {m}
  /\ completion' = Append(completion, m)
  /\ task' = [task EXCEPT ![m] = DropFrame(@)]
  /\ UNCHANGED <<args, now, asyncLocals, commits, wave_start, submitted, early, yielded,
                 results, pool_pc, aside>>

\* the statement after the with block of a wave
AfterWave ==
  IF entry = WITH_THREADS THEN "return"
  ELSE IF entry = WITH_RATE_LIMIT THEN "sleep"
  ELSE IF wave_start + max_workers \in Mappings THEN "submit" ELSE "return"

\* the place of future m in the order of completion
FinishedAs(m) == CHOOSE i \in DOMAIN completion : completion[i] = m

\* The futures as_completed may hand over next, `waiting` being the finished
\* futures of the wave not handed over yet: one of those it found finished
\* when it was called, which it keeps in a set (no order); after them, the
\* one that finished first.
NextYielded(waiting) ==
  IF early # {} THEN early
  ELSE {m \in waiting : \A k \in waiting : FinishedAs(m) <= FinishedAs(k)}

\* as_completed hands over a finished future; its result is appended.  When
\* the wave is drained the with block ends and the next wave starts.
Collect ==
  /\ entry \in Executors \ {WITH_MULTIPROCESSING}
  /\ pool_pc = "collect"
  /\ IF Wave \subseteq yielded
     THEN /\ pool_pc' = AfterWave
          /\ wave_start' = IF entry = IN_BATCHES THEN wave_start + max_workers ELSE wave_start
          /\ UNCHANGED <<results, yielded, early>>
     ELSE /\ \E m \in NextYielded((Wave \cap finished) \ yielded) :
               /\ yielded' = yielded \cup {m}
               /\ early' = early \ {m}
               /\ results' = IF FutureRaised(task[m])
                             THEN results  \* the except clause logs, and appends nothing
                             ELSE Append(results, [by |-> m, result |-> task[m].result])
          /\ UNCHANGED <<pool_pc, wave_start>>
  /\ UNCHANGED <<args, now, asyncLocals, commits, task, submitted, finished, completion, aside>>

\* pool.starmap(process_single_mapping, [...]) returns the results in the
\* order of its argument list
InListOrder == [i \in 1..Len(matched_mappings) |-> i]

\* pool.starmap returns when every task is over: with the list of the results,
\* or by raising the exception of a task that raised
StarmapReturns ==
  /\ entry = WITH_MULTIPROCESSING
  /\ pool_pc = "collect"
  /\ Mappings \subseteq finished
  /\ yielded' = Mappings
  /\ IF \E m \in Mappings : FutureRaised(task[m])
     THEN pool_pc' = "raised" /\ UNCHANGED results
     ELSE /\ pool_pc' = "return"
          /\ results' = [i \in DOMAIN InListOrder |->
                           [by |-> InListOrder[i], result |-> task[InListOrder[i]].result]]
  /\ UNCHANGED <<args, now, asyncLocals, commits, task, wave_start, submitted, finished,
                 completion, early, aside>>

\* min_interval=0.2, in milliseconds
min_interval == 200

\* milliseconds by which a sleep may outlast the time asked for
Oversleep == {0, 1}

\* (a sleep that returns at once)
NotSlept(t, d, late) == t + late

\* the clock when time.sleep(d), called at t, returns: no earlier than t + d
SleptUntil(t, d, late) == t + d + late

\* time.sleep(min_interval) between two waves ends
RateLimitSleepEnds ==
  /\ entry = WITH_RATE_LIMIT
  /\ pool_pc = "sleep"
  /\ \E late \in Oversleep : now' = SleptUntil(now, min_interval, late)
  /\ wave_start' = wave_start + max_workers
  /\ pool_pc' = IF wave_start + max_workers \in Mappings THEN "submit" ELSE "return"
  /\ UNCHANGED <<args, asyncLocals, commits, task, submitted, finished, completion, early,
                 yielded, results, aside>>

PoolNext ==
  \/ CallSingle
  \/ Submit
  \/ WorkerTakes
  \/ \E m \in Mappings : EngineReturns(m)
  \/ \E m \in Mappings : BackoffEnds(m)
  \/ \E m \in Mappings : FutureDone(m)
  \/ Collect
  \/ StarmapReturns
  \/ RateLimitSleepEnds

InitPool ==
  /\ \/ /\ entry \in Executors
        /\ matched_mappings \in MappingLists
        /\ max_workers \in 1..MaxWorkers
        /\ pool_pc = "submit"
     \/ /\ entry = PROCESS_SINGLE_MAPPING
        /\ matched_mappings \in {MappingList(1, first) : first \in {AOENGINE, ORENCTL}}
        /\ max_workers = 0
        /\ pool_pc = "idle"
  /\ kafka_client = Absent
  /\ offset = Absent
  /\ time_commit = Absent
  /\ now = FirstNow
  /\ mapping_idx = 1
  /\ next_condition = FALSE
  /\ retry_count = 0
  /\ pc = "idle"
  /\ commits = << >>
  /\ task = [m \in Mappings |-> NewTask]
  /\ wave_start = 1
  /\ submitted = {}
  /\ finished = {}
  /\ completion = << >>
  /\ early = {}
  /\ yielded = {}
  /\ results = << >>
  /\ call = NoCall
  /\ loop = NoLoop
  /\ EventIdle
  /\ AlertsIdle
  /\ CacheIdle
  /\ HarnessIdle

Init == InitAsync \/ InitPool
Next == AsyncNext \/ PoolNext
Spec == Init /\ [][Next]_vars

(***************************************************************************)
(* SpecFair: the two functions that hold a retry loop, each called once,   *)
(* under fairness.  The event loop resumes a coroutine whose awaited call  *)
(* or sleep is over, and a thread that can run does run: a step that can   *)
(* be taken is taken in the end.                                           *)
(***************************************************************************)
InitFair == Init /\ entry \in {PROCESS_MAPPINGS_ASYNC, PROCESS_SINGLE_MAPPING}
NextFair ==
  \/ AsyncNext
  \/ CallSingle
  \/ \E m \in Mappings : EngineReturns(m)
  \/ \E m \in Mappings : BackoffEnds(m)
SpecFair == InitFair /\ [][NextFair]_vars /\ WF_vars(NextFair)

(***************************************************************************)
(* SpecEngine: one engine call applied to inputs drawn from bounded sets.  *)
(***************************************************************************)
RunPlaybookCalls ==
  [fn : {"run_playbook"}, event : Events, tenant_info : TenantInfos,
   playbook_id : PlaybookIds, mapping_id : MappingIds, net : NetOutcomes,
   done : {FALSE}]

IngestCalls ==
  [fn : {"ingest"}, tenant : {NoneVal, "t1"}, net : NetOutcomes, done : {FALSE}]

Returned(c, out) ==
  [fn |-> c.fn, args |-> c, done |-> TRUE, ret |-> out.ret, calls |-> out.calls,
   extra_info |-> out.extra_info]

RunPlaybookCall ==
  /\ call.fn = "run_playbook" /\ ~call.done
  /\ call' = Returned(call, run_playbook(call.event, call.tenant_info, call.playbook_id,
                                         [mapping_id |-> call.mapping_id], call.net))
  /\ UNCHANGED <<args, now, asyncLocals, commits, task, poolLocals, loop, eventLocals, alertLocals,
                 cacheLocals, harnessLocals>>

IngestCall ==
  /\ call.fn = "ingest" /\ ~call.done
  /\ call' = Returned(call, ingest(call.net))
  /\ UNCHANGED <<args, now, asyncLocals, commits, task, poolLocals, loop, eventLocals, alertLocals,
                 cacheLocals, harnessLocals>>

InitEngine ==
  /\ call \in RunPlaybookCalls \cup IngestCalls
  /\ entry = call.fn
  /\ matched_mappings = << >>
  /\ max_workers = 0
  /\ pool_pc = "idle"
  /\ kafka_client = Absent
  /\ offset = Absent
  /\ time_commit = Absent
  /\ now = FirstNow
  /\ mapping_idx = 1
  /\ next_condition = FALSE
  /\ retry_count = 0
  /\ pc = "idle"
  /\ commits = << >>
  /\ task = << >>
  /\ wave_start = 1
  /\ submitted = {}
  /\ finished = {}
  /\ completion = << >>
  /\ early = {}
  /\ yielded = {}
  /\ results = << >>
  /\ loop = NoLoop
  /\ EventIdle
  /\ AlertsIdle
  /\ CacheIdle
  /\ HarnessIdle

NextEngine == RunPlaybookCall \/ IngestCall
SpecEngine == InitEngine /\ [][NextEngine]_vars

(***************************************************************************)
(* SpecLoop: process_mappings_async called once for each of several events *)
(* of one partition, with the same stream client.  The calls are           *)
(* coroutines of one event loop: the loop runs one coroutine at a time,    *)
(* from the point it was suspended at (an await) to its next await.  Of    *)
(* each call the loop keeps pc (as above, with "retry_commit" and          *)
(* "terminal_commit" for a coroutine inside kafka_client._commit),         *)
(* mapping_idx, retry_count and n, the length of its matched_mappings.     *)
(***************************************************************************)
\* calls of process_mappings_async alive at one time
Invocations == 2
Coroutines == 1..Invocations

EVENT_LOOP == "event_loop"

\* (a commit that is awaited: the loop runs other coroutines until it is over)
CommitAwaited == TRUE

\* kafka_client._commit(...) is a plain call, not awaited: the coroutine keeps
\* the thread until the call is over
CommitSuspends == FALSE

\* no coroutine is running: the loop may resume one
LoopFree == loop.running = 0

\* coroutine c calls _commit at the statement `at`
EnterCommit(c, at) ==
  [loop EXCEPT !.running = IF CommitSuspends THEN 0 ELSE c, !.co[c].pc = at]

\* from the end of the loop body to the next await: the while test (nc is
\* next_condition), the next mapping of the for loop, the return
AfterBody(co, nc) ==
  IF LoopContinues(nc, co.retry_count) THEN [co EXCEPT !.pc = "dispatch"]
  ELSE IF co.mapping_idx < co.n
  THEN [co EXCEPT !.pc = "dispatch", !.mapping_idx = @ + 1, !.retry_count = FreshRetryCount]
  ELSE [co EXCEPT !.pc = "return"]

coordinator == <<args, now, asyncLocals, commits, task, poolLocals, call>>

\* the engine call coroutine c awaits is over and the loop resumes c, which
\* runs into a _commit call or to its next await
LoopDispatchReturns(c) ==
  /\ entry = EVENT_LOOP
  /\ LoopFree
  /\ loop.co[c].pc = "dispatch"
  /\ \E out \in AoengineOutcomes \cup OrenctlOutcomes, urgent \in BOOLEAN :
       LET co == loop.co[c] IN
         loop' =
           CASE out = RAISED ->
                  [loop EXCEPT !.co[c] = [co EXCEPT !.pc = "except_sleep",
                                                    !.retry_count = @ + 1]]
             [] out \in result_for_retry ->
                  IF CommitsOnRetry(kafka_client) THEN EnterCommit(c, "retry_commit")
                  ELSE [loop EXCEPT !.co[c] = [co EXCEPT !.pc = "retry_sleep",
                                                         !.retry_count = @ + 1]]
             [] OTHER ->
                  IF urgent THEN EnterCommit(c, "terminal_commit")
                  ELSE [loop EXCEPT !.co[c] = AfterBody(co, TRUE)]
  /\ UNCHANGED <<coordinator, eventLocals, alertLocals, cacheLocals, harnessLocals>>

\* the _commit call of coroutine c comes back, or raises
LoopCommitReturns(c) ==
  /\ entry = EVENT_LOOP
  /\ loop.co[c].pc \in {"retry_commit", "terminal_commit"}
  /\ loop.running = c \/ (CommitSuspends /\ LoopFree)
  /\ \E fails \in BOOLEAN :
       LET co == loop.co[c] IN
         loop' =
           [loop EXCEPT
              !.running = 0,
              !.co[c] =
                IF co.pc = "retry_commit"
                THEN [co EXCEPT !.pc = IF fails THEN "except_sleep" ELSE "retry_sleep",
                                !.retry_count = @ + 1]
                ELSE IF fails THEN [co EXCEPT !.pc = "commit_error_sleep"]
                ELSE AfterBody(co, TRUE)]
  /\ UNCHANGED <<coordinator, eventLocals, alertLocals, cacheLocals, harnessLocals>>

\* a sleep of coroutine c is over and the loop resumes c
LoopWake(c) ==
  /\ entry = EVENT_LOOP
  /\ LoopFree
  /\ loop.co[c].pc \in {"retry_sleep", "commit_error_sleep", "except_sleep"}
  /\ loop' = [loop EXCEPT !.co[c] = AfterBody(@, loop.co[c].pc = "commit_error_sleep")]
  /\ UNCHANGED <<coordinator, eventLocals, alertLocals, cacheLocals, harnessLocals>>

InitLoop ==
  /\ entry = EVENT_LOOP
  /\ \E n \in 1..MaxMappings :
       loop = [running |-> 0,
               co |-> [c \in Coroutines |->
                         [pc |-> "dispatch", mapping_idx |-> 1,
                          retry_count |-> FreshRetryCount, n |-> n]]]
  /\ kafka_client \in KafkaClients
  /\ offset = Absent
  /\ matched_mappings = << >>
  /\ max_workers = 0
  /\ pool_pc = "idle"
  /\ time_commit = Absent
  /\ now = FirstNow
  /\ mapping_idx = 1
  /\ next_condition = FALSE
  /\ retry_count = 0
  /\ pc = "idle"
  /\ commits = << >>
  /\ task = << >>
  /\ wave_start = 1
  /\ submitted = {}
  /\ finished = {}
  /\ completion = << >>
  /\ early = {}
  /\ yielded = {}
  /\ results = << >>
  /\ call = NoCall
  /\ EventIdle
  /\ AlertsIdle
  /\ CacheIdle
  /\ HarnessIdle

NextLoop ==
  \E c \in Coroutines : LoopDispatchReturns(c) \/ LoopCommitReturns(c) \/ LoopWake(c)
SpecLoop == InitLoop /\ [][NextLoop]_vars

(***************************************************************************)
(* SpecEvent: process_mapping_with_threads over aoengine mappings.  Every  *)
(* worker thread is handed the same event dict.  Of each thread: pc        *)
(* ("queued": submitted, no worker yet; "running": in the body of          *)
(* process_single_mapping's loop; "attached": run_playbook has written     *)
(* event["extra_info"]; "posted": the request is out; "done"), attempt     *)
(* (the for loop's counter) and request (the extra_info the request body   *)
(* carried).  The threads are switched between any two statements.         *)
(***************************************************************************)
SHARED_EVENT == "shared_event"

NewThread == [pc |-> "queued", attempt |-> 0, request |-> NoneVal]

\* threads a worker of the pool is busy with
Busy == {m \in Mappings : thread[m].pc \in {"running", "attached", "posted"}}

\* a worker takes the oldest queued call of process_single_mapping
ThreadStarts ==
  /\ entry = SHARED_EVENT
  /\ Cardinality(Busy) < max_workers
  /\ LET queued == {m \in Mappings : thread[m].pc = "queued"} IN
       /\ queued # {}
       /\ LET m == CHOOSE q \in queued : \A k \in queued : q <= k IN
            thread' = [thread EXCEPT ![m].pc = "running"]
  /\ UNCHANGED <<coordinator, loop, shared_event, alertLocals, cacheLocals, harnessLocals>>

\* run_playbook(event=event, extra_info={"mapping_id": mapping.get('id')}):
\* without a playbook id it returns INVALID_EVENT, else it writes
\* event["extra_info"] = extra_info
AttachExtraInfo(m) ==
  /\ entry = SHARED_EVENT
  /\ thread[m].pc = "running"
  /\ \E playbook_id \in PlaybookIds :
       IF Truthy(playbook_id)
       THEN /\ shared_event' = [shared_event EXCEPT
                                  !.extra_info = [mapping_id |-> matched_mappings[m].id]]
            /\ thread' = [thread EXCEPT ![m].pc = "attached"]
       ELSE /\ thread' = [thread EXCEPT ![m].pc = "done"]
            /\ UNCHANGED shared_event
  /\ UNCHANGED <<coordinator, loop, alertLocals, cacheLocals, harnessLocals>>

\* body = {..., "input_event": event}; session.post(uri, json=body): the body
\* holds the event dict itself, which is serialised when the request is sent
PostRequest(m) ==
  /\ entry = SHARED_EVENT
  /\ thread[m].pc = "attached"
  /\ thread' = [thread EXCEPT ![m].pc = "posted", ![m].request = shared_event.extra_info]
  /\ UNCHANGED <<coordinator, loop, shared_event, alertLocals, cacheLocals, harnessLocals>>

\* the engine's answer: the result is returned, or the loop sleeps and goes to
\* its next attempt
EngineAnswers(m) ==
  /\ entry = SHARED_EVENT
  /\ thread[m].pc = "posted"
  /\ \E net \in NetOutcomes :
       thread' =
         [thread EXCEPT ![m] =
            IF ReturnsAtOnce(ClassifyResponse(net)) \/ ~AttemptsLeft(thread[m].attempt + 1)
            THEN [@ EXCEPT !.pc = "done", !.request = NoneVal]
            ELSE [@ EXCEPT !.pc = "running", !.attempt = @ + 1, !.request = NoneVal]]
  /\ UNCHANGED <<coordinator, loop, shared_event, alertLocals, cacheLocals, harnessLocals>>

InitEvent ==
  /\ entry = SHARED_EVENT
  /\ matched_mappings \in {[i \in 1..n |-> [id |-> i, playbook_type |-> AOENGINE]] :
                             n \in 1..MaxMappings}
  /\ max_workers \in 1..MaxWorkers
  /\ shared_event = NoEvent
  /\ thread = [m \in Mappings |-> NewThread]
  /\ pool_pc = "idle"
  /\ kafka_client = Absent
  /\ offset = Absent
  /\ time_commit = Absent
  /\ now = FirstNow
  /\ mapping_idx = 1
  /\ next_condition = FALSE
  /\ retry_count = 0
  /\ pc = "idle"
  /\ commits = << >>
  /\ task = << >>
  /\ wave_start = 1
  /\ submitted = {}
  /\ finished = {}
  /\ completion = << >>
  /\ early = {}
  /\ yielded = {}
  /\ results = << >>
  /\ call = NoCall
  /\ loop = NoLoop
  /\ AlertsIdle
  /\ CacheIdle
  /\ HarnessIdle

NextEvent ==
  \/ ThreadStarts
  \/ \E m \in Mappings : AttachExtraInfo(m) \/ PostRequest(m) \/ EngineAnswers(m)
SpecEvent == InitEvent /\ [][NextEvent]_vars

(***************************************************************************)
(* SpecAlerts: create_alerts_batch (src/alert_with_events.py).  One step   *)
(* is one pass of the for loop: the item is read, the calls of the try     *)
(* block are made up to the first that raises, and the item is entered in  *)
(* results.  create_alert, records_store.create, the query for existing    *)
(* entities and records_store.commit may raise; rollback and the loggers   *)
(* do not.  The store keeps, per tenant, the rows written and not yet      *)
(* committed (pending) and the committed rows, each row marked with the    *)
(* item it was written for, and the commit / rollback calls it received.   *)
(***************************************************************************)
CREATE_ALERTS_BATCH == "create_alerts_batch"

\* longest alerts_data
MaxAlerts == 2
\* most events, and most entities, in one body
MaxEvents == 1
MaxEntities == 1

AlertTenants == {NoneVal, "tenant1", "tenant2"}

\* an entity of a body is given by the _id the query for existing entities
\* finds for it: Absent when no row matches
EntityIds == {Absent, Some(7)}
EntityLists == UNION {[1..n -> EntityIds] : n \in 0..MaxEntities}

\* a body: {} (empty), or a dict with alert fields, `events` events and the
\* entities `entity` (0 and << >> also stand for a missing key and for None)
EmptyDict == [empty |-> TRUE, events |-> 0, entity |-> << >>]
Bodies ==
  {Absent, Some(EmptyDict)}
    \cup {Some([empty |-> FALSE, events |-> e, entity |-> es]) :
            e \in 0..MaxEvents, es \in EntityLists}
AlertItems == [tenant : AlertTenants, body : Bodies]

\* alert_item.get("body"), as a dict
BodyOf(item) == IF IsSome(item.body) THEN Get(item.body) ELSE EmptyDict

\* (the test without its `or not body`)
MissingTenantOnly(item) == ~Truthy(item.tenant)

\* `if not tenant or not body`
MissingTenantOrBody(item) == ~Truthy(item.tenant) \/ BodyOf(item).empty

StoreCall(op, tenant, table) == [op |-> op, tenant |-> tenant, table |-> table]

\* for event in events: records_store.create(table="alert_artifact_event", ...)
EventCreates(tenant, events) ==
  [i \in 1..events |-> StoreCall("create", tenant, "alert_artifact_event")]

\* (every entity taken for a new one)
EntityNeverExists(found) == FALSE

\* `if entity_maps.get(entity_key_value_map)`: the query found a row for the
\* entity, and the row's _id is truthy
EntityExists(found) == IsSome(found) /\ Get(found) # 0

\* for entity in entities: create the entity unless it exists, then create
\* its entity_alert_case_mapping row
RECURSIVE EntityCreates(_, _)
EntityCreates(tenant, entities) ==
  IF entities = << >> THEN << >>
  ELSE (IF EntityExists(Head(entities)) THEN << >>
        ELSE <<StoreCall("create", tenant, "entity")>>)
         \o <<StoreCall("create", tenant, "entity_alert_case_mapping")>>
         \o EntityCreates(tenant, Tail(entities))

\* the calls of the try block, in order, when none of them raises
Plan(item) ==
  LET tenant == item.tenant
      body == BodyOf(item)
  IN <<StoreCall("create_alert", tenant, "alert")>>
       \o EventCreates(tenant, body.events)
       \o (IF body.entity = << >> THEN << >>
           ELSE <<StoreCall("query", tenant, "entity")>> \o EntityCreates(tenant, body.entity))
       \o <<StoreCall("commit", tenant, "")>>

\* (an except clause that does not roll back)
NoRollback(tenant) == << >>

\* the except clause: records_store.rollback(tenant)
Rollback(tenant) == <<StoreCall("rollback", tenant, "")>>

\* which call of the plan raises: 0 for none
FailurePoints(item) ==
  IF MissingTenantOrBody(item) THEN {0} ELSE 0..Len(Plan(item))

\* the calls one pass of the loop makes for `item` when call fail_at raises
ItemCalls(item, fail_at) ==
  IF MissingTenantOrBody(item) THEN << >>
  ELSE IF fail_at = 0 THEN Plan(item)
  ELSE SubSeq(Plan(item), 1, fail_at) \o Rollback(item.tenant)

\* the store after call c, made for item i; raised: the call raised
StoreAfter(store, c, i, raised) ==
  CASE c.op \in {"create_alert", "create"} /\ ~raised ->
         [store EXCEPT !.pending = @ \cup {[tenant |-> c.tenant, item |-> i]}]
    [] c.op = "commit" ->
         [store EXCEPT
            !.closing = Append(@, [item |-> i, op |-> "commit", tenant |-> c.tenant]),
            !.committed = IF raised THEN @
                          ELSE @ \cup {r \in store.pending : r.tenant = c.tenant},
            !.pending = IF raised THEN @ ELSE {r \in @ : r.tenant # c.tenant}]
    [] c.op = "rollback" ->
         [store EXCEPT
            !.closing = Append(@, [item |-> i, op |-> "rollback", tenant |-> c.tenant]),
            !.pending = {r \in @ : r.tenant # c.tenant}]
    [] OTHER -> store

\* the store after the calls calls[k], calls[k+1], ... of item i
RECURSIVE StoreAfterAll(_, _, _, _, _)
StoreAfterAll(store, calls, k, i, fail_at) ==
  IF k > Len(calls) THEN store
  ELSE StoreAfterAll(StoreAfter(store, calls[k], i, k = fail_at), calls, k + 1, i, fail_at)

MISSING_DATA == "Missing tenant or body data"

\* results["success"].append(...) and results["failed"].append(...); `item`
\* is the place of the item in alerts_data
Succeeded(res, i, item) ==
  [res EXCEPT !.success = Append(@, [item |-> i, tenant |-> item.tenant])]
Failed(res, i, item, error) ==
  [res EXCEPT !.failed = Append(@, [item |-> i, tenant |-> item.tenant, error |-> error])]

\* (a failed item ends the loop)
AbortsBatch(idx) == alerts_len + 1

\* the except clause ends and the for loop takes the next item
AfterFailedItem(idx) == idx + 1

\* one pass of `for alert_item in alerts_data`
ProcessAlertItem ==
  /\ entry = CREATE_ALERTS_BATCH
  /\ batch_pc = "for"
  /\ alert_idx <= alerts_len
  /\ \E item \in AlertItems :
       \E fail_at \in FailurePoints(item) :
         LET calls == ItemCalls(item, fail_at) IN
           /\ alert_item' = item
           /\ item_calls' = calls
           /\ records_store' = StoreAfterAll(records_store, calls, 1, alert_idx, fail_at)
           /\ IF MissingTenantOrBody(item)
              THEN /\ batch_results' = Failed(batch_results, alert_idx, item, MISSING_DATA)
                   /\ alert_idx' = alert_idx + 1
              ELSE IF fail_at = 0
              THEN /\ batch_results' = Succeeded(batch_results, alert_idx, item)
                   /\ alert_idx' = alert_idx + 1
              ELSE /\ batch_results' = Failed(batch_results, alert_idx, item, RAISED)
                   /\ alert_idx' = AfterFailedItem(alert_idx)
  /\ UNCHANGED <<coordinator, loop, eventLocals, cacheLocals, harnessLocals, alerts_len, batch_pc>>

\* return jsonify({...})
ReturnBatch ==
  /\ entry = CREATE_ALERTS_BATCH
  /\ batch_pc = "for"
  /\ alert_idx > alerts_len
  /\ batch_pc' = "return"
  /\ UNCHANGED <<coordinator, loop, eventLocals, cacheLocals, harnessLocals, alerts_len,
                 alert_idx, alert_item, item_calls, batch_results, records_store>>

InitAlerts ==
  /\ entry = CREATE_ALERTS_BATCH
  /\ alerts_len \in 0..MaxAlerts
  /\ alert_idx = 1
  /\ alert_item = NoItem
  /\ item_calls = << >>
  /\ batch_results = NoResults
  /\ records_store = EmptyStore
  /\ batch_pc = "for"
  /\ matched_mappings = << >>
  /\ max_workers = 0
  /\ pool_pc = "idle"
  /\ kafka_client = Absent
  /\ offset = Absent
  /\ time_commit = Absent
  /\ now = FirstNow
  /\ mapping_idx = 1
  /\ next_condition = FALSE
  /\ retry_count = 0
  /\ pc = "idle"
  /\ commits = << >>
  /\ task = << >>
  /\ wave_start = 1
  /\ submitted = {}
  /\ finished = {}
  /\ completion = << >>
  /\ early = {}
  /\ yielded = {}
  /\ results = << >>
  /\ call = NoCall
  /\ loop = NoLoop
  /\ EventIdle
  /\ CacheIdle
  /\ HarnessIdle

NextAlerts == ProcessAlertItem \/ ReturnBatch
SpecAlerts == InitAlerts /\ [][NextAlerts]_vars

(***************************************************************************)
(* MappingRetriever (mapping1.py, mapping2.py).  get_mappings answers from *)
(* the tenant's Redis entry or from Postgres.  One call runs from its      *)
(* first statement to its return on one thread; what Redis and Postgres    *)
(* answer to it (a value, or an error) is an input of the call.            *)
(***************************************************************************)
GET_MAPPINGS == "get_mappings"
MAPPING1 == "mapping1.py"
MAPPING2 == "mapping2.py"
Retrievers == {MAPPING1, MAPPING2}
CacheTenants == {"tenant1", "tenant2"}
MaxRows == 1

\* A row of the mappings table: the tenant, the is_active / enabled column
\* and the ids its mapping carries (0: the mapping has no '_id').
TableRows == [tenant : CacheTenants, enabled : BOOLEAN, _id : {0, 1}, id : {2}]
Tables == UNION {[1..n -> TableRows] : n \in 0..MaxRows}

\* json.dumps(mappings) and json.loads(cached_mappings): the text Redis
\* holds is not the list; the text of any list, b"[]" too, is not empty.
Dumps(mappings) == [json |-> mappings]
Loads(text) == text.json

\* fetch_mappings_from_postgres: mapping1.py selects the tenant's active
\* rows, mapping2.py every enabled row of the table; a failed query is
\* logged and gives the empty list.
fetch_mappings_from_postgres(src, table, tenant_id, pg_fails) ==
  IF pg_fails THEN << >>
  ELSE IF src = MAPPING1
  THEN SelectSeq(table, LAMBDA r : r.tenant = tenant_id /\ r.enabled)
  ELSE SelectSeq(table, LAMBDA r : r.enabled)

\* 'id': mapping.get('_id') or mapping.get('id')
ParsedId(mapping) == IF mapping._id # 0 THEN mapping._id ELSE mapping.id

\* parse_mappings (mapping1.py); mapping2.py returns the rows as fetched
parse_mappings(src, raw_mappings) ==
  IF src = MAPPING1
  THEN [i \in 1..Len(raw_mappings) |->
          [id |-> ParsedId(raw_mappings[i]), tenant |-> raw_mappings[i].tenant]]
  ELSE raw_mappings

\* mapping1.py: cache_mappings_to_redis is a method of the class and calls
\* setex; mapping2.py calls self.cache_mappings_to_redis, which its class
\* does not define: the AttributeError is caught and logged, setex is not
\* reached.
CallsSetex(src) == src = MAPPING1

\* cache_mappings_to_redis: setex(redis_key, 3600, json.dumps(mappings)); an
\* error of Redis is logged and the entry stays as it was
cache_mappings_to_redis(src, cache, tenant_id, mappings, write_fails) ==
  IF CallsSetex(src) /\ ~write_fails
  THEN [cache EXCEPT ![tenant_id] = Some(Dumps(mappings))]
  ELSE cache

ReadAlways(cache, tenant_id, force_refresh, read_fails) ==
  IF read_fails THEN Absent ELSE cache[tenant_id]

\* cached_mappings = self.redis_client.get(redis_key): nothing is read under
\* force_refresh, and nothing is held when the read raises
ReadEntry(cache, tenant_id, force_refresh, read_fails) ==
  IF force_refresh \/ read_fails THEN Absent ELSE cache[tenant_id]

NeverHit(cached_mappings) == FALSE

\* if cached_mappings:
CacheHit(cached_mappings) == IsSome(cached_mappings)

\* what Redis raises when it cannot be reached, and what the call of a
\* method the class does not define raises
REDIS_ERROR == "redis.RedisError"
ATTRIBUTE_ERROR == "AttributeError"

CatchesNothing(src) == {}

\* the except clause around redis_client.get: `except Exception` in
\* mapping1.py, `except redis.RedisError` in mapping2.py
CaughtOnRead(src) ==
  IF src = MAPPING1 THEN {REDIS_ERROR, ATTRIBUTE_ERROR, OtherError} ELSE {REDIS_ERROR}

\* the except clause around the cache write: `except Exception`, inside
\* cache_mappings_to_redis (mapping1.py) or around its call (mapping2.py)
CaughtOnWrite(src) == {REDIS_ERROR, ATTRIBUTE_ERROR, OtherError}

\* what the cache write raises into its except clause
WriteRaises(src, write_fails) ==
  IF ~CallsSetex(src) THEN ATTRIBUTE_ERROR
  ELSE IF write_fails THEN REDIS_ERROR
  ELSE NoneVal

\* get_mappings: what it returns (or the exception that leaves it), the
\* cache it leaves and the calls it made
get_mappings(src, cache, table, tenant_id, force_refresh, read_fails, pg_fails, write_fails) ==
  LET cached_mappings == ReadEntry(cache, tenant_id, force_refresh, read_fails)
      read_raised == ~force_refresh /\ read_fails
      raw_mappings == fetch_mappings_from_postgres(src, table, tenant_id, pg_fails)
      parsed_mappings == parse_mappings(src, raw_mappings)
      write_raises == WriteRaises(src, write_fails)
  IN  IF read_raised /\ REDIS_ERROR \notin CaughtOnRead(src)
      THEN [ret |-> << >>, raised |-> REDIS_ERROR, cache |-> cache,
            reads |-> 1, queries |-> 0, writes |-> 0]
      ELSE IF CacheHit(cached_mappings)
      THEN [ret |-> Loads(Get(cached_mappings)), raised |-> NoneVal, cache |-> cache,
            reads |-> 1, queries |-> 0, writes |-> 0]
      ELSE IF write_raises # NoneVal /\ write_raises \notin CaughtOnWrite(src)
      THEN [ret |-> << >>, raised |-> write_raises, cache |-> cache,
            reads |-> IF force_refresh THEN 0 ELSE 1,
            queries |-> 1,
            writes |-> IF CallsSetex(src) THEN 1 ELSE 0]
      ELSE [ret |-> parsed_mappings, raised |-> NoneVal,
            cache |-> cache_mappings_to_redis(src, cache, tenant_id, parsed_mappings,
                                              write_fails),
            reads |-> IF force_refresh THEN 0 ELSE 1,
            queries |-> 1,
            writes |-> IF CallsSetex(src) THEN 1 ELSE 0]

\* one call of get_mappings; got keeps its arguments, the entry the key held
\* when it was called and the one it held at the return, which of Redis and
\* Postgres failed under the call, and what the call did
GetMappings ==
  /\ entry = GET_MAPPINGS
  /\ \E tenant_id \in CacheTenants :
       \E force_refresh \in BOOLEAN, read_fails \in BOOLEAN, pg_fails \in BOOLEAN,
          write_fails \in BOOLEAN :
         LET r == get_mappings(retriever, redis_cache, pg_rows, tenant_id,
                               force_refresh, read_fails, pg_fails, write_fails)
         IN  /\ redis_cache' = r.cache
             /\ got' = [tenant_id |-> tenant_id, force_refresh |-> force_refresh,
                        cached |-> redis_cache[tenant_id],
                        read_raised |-> ~force_refresh /\ read_fails,
                        query_failed |-> r.queries = 1 /\ pg_fails,
                        write_raised |-> r.writes = 1 /\ write_fails,
                        ret |-> r.ret, raised |-> r.raised, reads |-> r.reads,
                        queries |-> r.queries, writes |-> r.writes,
                        left |-> r.cache[tenant_id]]
  /\ UNCHANGED <<coordinator, loop, eventLocals, alertLocals, harnessLocals, retriever,
                 pg_rows, tenant_info, refreshed>>

\* the expiry setex gave an entry passes
Expire ==
  /\ entry = GET_MAPPINGS
  /\ \E tenant_id \in CacheTenants :
       /\ IsSome(redis_cache[tenant_id])
       /\ redis_cache' = [redis_cache EXCEPT ![tenant_id] = Absent]
  /\ UNCHANGED <<coordinator, loop, eventLocals, alertLocals, harnessLocals, retriever,
                 pg_rows, got, tenant_info, refreshed>>

\* what the key of a tenant may hold when the retriever is constructed:
\* nothing, or the list a call would fetch for it
LeftInRedis(src, table, tenant_id) ==
  {Absent,
   Some(Dumps(parse_mappings(src,
                 fetch_mappings_from_postgres(src, table, tenant_id, FALSE))))}

InitCache ==
  /\ entry = GET_MAPPINGS
  /\ retriever \in Retrievers
  /\ pg_rows \in Tables
  /\ redis_cache \in [CacheTenants -> UNION {LeftInRedis(retriever, pg_rows, t) :
                                               t \in CacheTenants}]
  /\ \A t \in CacheTenants : redis_cache[t] \in LeftInRedis(retriever, pg_rows, t)
  /\ got = NoGet
  /\ RefreshIdle
  /\ HarnessIdle
  /\ matched_mappings = << >>
  /\ max_workers = 0
  /\ pool_pc = "idle"
  /\ kafka_client = Absent
  /\ offset = Absent
  /\ time_commit = Absent
  /\ now = FirstNow
  /\ mapping_idx = 1
  /\ next_condition = FALSE
  /\ retry_count = 0
  /\ pc = "idle"
  /\ commits = << >>
  /\ task = << >>
  /\ wave_start = 1
  /\ submitted = {}
  /\ finished = {}
  /\ completion = << >>
  /\ early = {}
  /\ yielded = {}
  /\ results = << >>
  /\ call = NoCall
  /\ loop = NoLoop
  /\ EventIdle
  /\ AlertsIdle

NextCache == GetMappings \/ Expire
SpecCache == InitCache /\ [][NextCache]_vars

(***************************************************************************)
(* modify_get_and_transform_mappings (mapping1.py): the periodic refresh.  *)
(* The caller keeps one tenant_info dict and calls again and again; the    *)
(* clock is read once per call and never runs backwards.                   *)
(***************************************************************************)
MODIFY_GET_AND_TRANSFORM == "modify_get_and_transform_mappings"

\* the instants (ms) at which calls are made
Instants == {1000, 1001, 2000, 6000, 6001}

\* tenant_info.get("update_interval", 5), in seconds
UpdateIntervals == {Absent, Some(0), Some(1)}
UpdateIntervalOf(info) ==
  IF IsSome(info.update_interval) THEN Get(info.update_interval) ELSE 5

\* tenant_info.get("update_time", 0)
UpdateTimeOf(info) == IF IsSome(info.update_time) THEN Get(info.update_time) ELSE 0

AlwaysDue(t, info) == TRUE

\* if now > tenant_info.get("update_time", 0):
RefreshDue(t, info) == t > UpdateTimeOf(info)

\* tenant_info["update_time"] = now + tenant_info.get("update_interval", 5) * 1000
NextUpdateTime(t, info) == t + UpdateIntervalOf(info) * 1000

\* the _mappings argument: the caller's previous mappings
PassedIn == {<< >>} \cup (IF refreshed = NoRefresh THEN {} ELSE {refreshed.ret})

\* one call of modify_get_and_transform_mappings at instant t
ModifyGetAndTransformMappings ==
  /\ entry = MODIFY_GET_AND_TRANSFORM
  /\ \E t \in Instants, _mappings \in PassedIn :
       /\ t >= now
       /\ now' = t
       /\ IF RefreshDue(t, tenant_info)
          THEN \E read_fails \in BOOLEAN, pg_fails \in BOOLEAN, write_fails \in BOOLEAN :
                 LET tenant_id == tenant_info.tenant_id
                     force_refresh == tenant_info.force_mapping_refresh
                     r == get_mappings(retriever, redis_cache, pg_rows, tenant_id,
                                       force_refresh, read_fails, pg_fails, write_fails)
                 IN  /\ tenant_info' =
                           [tenant_info EXCEPT
                              !.update_time = Some(NextUpdateTime(t, tenant_info))]
                     /\ redis_cache' = r.cache
                     /\ got' = [tenant_id |-> tenant_id, force_refresh |-> force_refresh,
                                cached |-> redis_cache[tenant_id],
                                read_raised |-> ~force_refresh /\ read_fails,
                                query_failed |-> r.queries = 1 /\ pg_fails,
                                write_raised |-> r.writes = 1 /\ write_fails,
                                ret |-> r.ret, raised |-> r.raised, reads |-> r.reads,
                                queries |-> r.queries, writes |-> r.writes,
                                left |-> r.cache[tenant_id]]
                     /\ refreshed' = [now |-> t, called |-> TRUE, _mappings |-> _mappings,
                                      update_time |-> tenant_info.update_time,
                                      ret |-> r.ret]
          ELSE /\ refreshed' = [now |-> t, called |-> FALSE, _mappings |-> _mappings,
                                update_time |-> tenant_info.update_time,
                                ret |-> _mappings]
               /\ UNCHANGED <<tenant_info, redis_cache, got>>
  /\ UNCHANGED <<args, asyncLocals, commits, task, poolLocals, call, loop, eventLocals,
                 alertLocals, harnessLocals, retriever, pg_rows>>

InitRefresh ==
  /\ entry = MODIFY_GET_AND_TRANSFORM
  /\ retriever = MAPPING1
  /\ pg_rows \in Tables
  /\ redis_cache = [t \in CacheTenants |-> Absent]
  /\ got = NoGet
  /\ tenant_info \in [tenant_id : {"tenant1"}, force_mapping_refresh : BOOLEAN,
                      update_interval : UpdateIntervals, update_time : {Absent}]
  /\ refreshed = NoRefresh
  /\ HarnessIdle
  /\ now = 0
  /\ matched_mappings = << >>
  /\ max_workers = 0
  /\ pool_pc = "idle"
  /\ kafka_client = Absent
  /\ offset = Absent
  /\ time_commit = Absent
  /\ mapping_idx = 1
  /\ next_condition = FALSE
  /\ retry_count = 0
  /\ pc = "idle"
  /\ commits = << >>
  /\ task = << >>
  /\ wave_start = 1
  /\ submitted = {}
  /\ finished = {}
  /\ completion = << >>
  /\ early = {}
  /\ yielded = {}
  /\ results = << >>
  /\ call = NoCall
  /\ loop = NoLoop
  /\ EventIdle
  /\ AlertsIdle

NextRefresh == ModifyGetAndTransformMappings
SpecRefresh == InitRefresh /\ [][NextRefresh]_vars

(***************************************************************************)
(* The entity loop of create_alerts_batch and create_alert_with_entity     *)
(* (alert_with_events.py): the entities of one body, each named by its     *)
(* entity_type_key and value.  entity_maps is built once, from the query   *)
(* for existing entities, before the loop.                                 *)
(***************************************************************************)
ENTITY_LOOP == "for entity in entities"

\* f'{entity_type_key}_{value}' of the entities a body can list
EntityKeys == {"ip_10.0.0.1", "host_web1"}
\* most entities listed in the body
MaxListed == 2
ListedEntities == UNION {[1..n -> EntityKeys] : n \in 1..MaxListed}

\* the _id of the entity row the query finds for a key
FoundId(key) == IF key = "ip_10.0.0.1" THEN 7 ELSE 8

\* entity_maps for the keys `existing` has rows for
EntityMaps(existing) ==
  [key \in EntityKeys |-> IF key \in existing THEN Some(FoundId(key)) ELSE Absent]

\* created_entity.get("_id"): the store numbers the rows it creates
CreatedId(created) == 100 + Len(created)

\* one pass of `for entity in entities`; either records_store.create may raise
ProcessEntity ==
  /\ entry = ENTITY_LOOP
  /\ entity_loop.pc = "for"
  /\ entity_loop.idx <= Len(entity_loop.entities)
  /\ LET key == entity_loop.entities[entity_loop.idx]
         found == entity_loop.entity_maps[key]
         entity_id == IF EntityExists(found) THEN Get(found)
                      ELSE CreatedId(entity_loop.created)
         created == IF EntityExists(found) THEN entity_loop.created
                    ELSE Append(entity_loop.created, [key |-> key, _id |-> entity_id])
     IN \E raises \in {"none", "entity", "entity_alert_case_mapping"} :
          /\ raises = "entity" => ~EntityExists(found)
          /\ entity_loop' =
               IF raises = "entity"
               THEN [entity_loop EXCEPT !.pc = "raised"]
               ELSE IF raises = "entity_alert_case_mapping"
               THEN [entity_loop EXCEPT !.pc = "raised", !.created = created]
               ELSE [entity_loop EXCEPT
                       !.idx = @ + 1,
                       !.created = created,
                       !.mapped = Append(@, [key |-> key, entity_id |-> entity_id])]
  /\ UNCHANGED <<coordinator, loop, eventLocals, alertLocals, cacheLocals, scriptLocals>>

\* the list is exhausted
EntityLoopEnds ==
  /\ entry = ENTITY_LOOP
  /\ entity_loop.pc = "for"
  /\ entity_loop.idx > Len(entity_loop.entities)
  /\ entity_loop' = [entity_loop EXCEPT !.pc = "done"]
  /\ UNCHANGED <<coordinator, loop, eventLocals, alertLocals, cacheLocals, scriptLocals>>

InitEntities ==
  /\ entry = ENTITY_LOOP
  /\ \E entities \in ListedEntities, existing \in SUBSET EntityKeys :
       entity_loop = [pc |-> "for", entities |-> entities, idx |-> 1,
                      entity_maps |-> EntityMaps(existing), created |-> << >>,
                      mapped |-> << >>]
  /\ ScriptIdle
  /\ matched_mappings = << >>
  /\ max_workers = 0
  /\ pool_pc = "idle"
  /\ kafka_client = Absent
  /\ offset = Absent
  /\ time_commit = Absent
  /\ now = FirstNow
  /\ mapping_idx = 1
  /\ next_condition = FALSE
  /\ retry_count = 0
  /\ pc = "idle"
  /\ commits = << >>
  /\ task = << >>
  /\ wave_start = 1
  /\ submitted = {}
  /\ finished = {}
  /\ completion = << >>
  /\ early = {}
  /\ yielded = {}
  /\ results = << >>
  /\ call = NoCall
  /\ loop = NoLoop
  /\ EventIdle
  /\ AlertsIdle
  /\ CacheIdle

NextEntities == ProcessEntity \/ EntityLoopEnds
SpecEntities == InitEntities /\ [][NextEntities]_vars

(***************************************************************************)
(* The multi-tenant create_alerts_batch(body) (src/unnamed/part_000): one  *)
(* try block around the whole for loop, one commit after it, one rollback  *)
(* in its except clause, both for the variable `tenant`, which holds the   *)
(* tenant of the item the loop read last.  One step is one pass of the     *)
(* loop, or the statements after it.  The store is the one of SpecAlerts.  *)
(***************************************************************************)
CREATE_ALERTS_BATCH_MULTI == "create_alerts_batch (multi-tenant)"

\* an item of body: its tenant, whether its severity is in SEVERITY_LIST,
\* the number of its events and its entities
BatchItems ==
  [tenant : AlertTenants, severity_ok : BOOLEAN, events : 0..MaxEvents,
   entity : EntityLists]

\* `if not tenant: raise` and `if alert_data.get("severity") not in
\* SEVERITY_LIST: raise`, both before the first create
RejectedItem(item) == ~Truthy(item.tenant) \/ ~item.severity_ok

\* the store calls of one pass, in order, when none of them raises
BatchPlan(item) ==
  <<StoreCall("create", item.tenant, "alert")>>
    \o (IF item.entity = << >> THEN << >>
        ELSE <<StoreCall("query", item.tenant, "entity")>>
               \o EntityCreates(item.tenant, item.entity))
    \o EventCreates(item.tenant, item.events)

\* except Exception as e: records_store.rollback(tenant)
ExceptRollback(tenant) == <<StoreCall("rollback", tenant, "")>>

\* the calls of one pass when call fail_at raises (0: none does)
BatchItemCalls(item, fail_at) ==
  IF RejectedItem(item) THEN ExceptRollback(item.tenant)
  ELSE IF fail_at = 0 THEN BatchPlan(item)
  ELSE SubSeq(BatchPlan(item), 1, fail_at) \o ExceptRollback(item.tenant)

\* one pass of `for item in body`
ProcessBatchItem ==
  /\ entry = CREATE_ALERTS_BATCH_MULTI
  /\ batch_pc = "for"
  /\ alert_idx <= alerts_len
  /\ \E item \in BatchItems :
       \E fail_at \in (IF RejectedItem(item) THEN {0} ELSE 0..Len(BatchPlan(item))) :
         LET calls == BatchItemCalls(item, fail_at) IN
           /\ alert_item' = item
           /\ item_calls' = calls
           /\ records_store' = StoreAfterAll(records_store, calls, 1, alert_idx, fail_at)
           /\ IF RejectedItem(item) \/ fail_at # 0
              THEN /\ batch_pc' = "raised"
                   /\ UNCHANGED <<alert_idx, batch_results>>
              ELSE /\ batch_pc' = "for"
                   /\ alert_idx' = alert_idx + 1
                   /\ batch_results' = Succeeded(batch_results, alert_idx, item)
  /\ UNCHANGED <<coordinator, loop, eventLocals, cacheLocals, harnessLocals, alerts_len>>

\* records_store.commit(tenant) after the loop and the return of 201; the
\* commit may raise, and with an empty body `tenant` was never assigned
CommitBatch ==
  /\ entry = CREATE_ALERTS_BATCH_MULTI
  /\ batch_pc = "for"
  /\ alert_idx > alerts_len
  /\ IF alerts_len = 0
     THEN /\ batch_pc' = "raised"
          /\ UNCHANGED <<item_calls, records_store>>
     ELSE \E commit_raises \in BOOLEAN :
            LET tenant == alert_item.tenant
                calls == <<StoreCall("commit", tenant, "")>>
                           \o (IF commit_raises THEN ExceptRollback(tenant) ELSE << >>)
            IN  /\ item_calls' = calls
                /\ records_store' =
                     StoreAfterAll(records_store, calls, 1, alerts_len,
                                   IF commit_raises THEN 1 ELSE 0)
                /\ batch_pc' = IF commit_raises THEN "raised" ELSE "return"
  /\ UNCHANGED <<coordinator, loop, eventLocals, cacheLocals, harnessLocals, alerts_len,
                 alert_idx, alert_item, batch_results>>

InitBatch ==
  /\ entry = CREATE_ALERTS_BATCH_MULTI
  /\ alerts_len \in 0..MaxAlerts
  /\ alert_idx = 1
  /\ alert_item = NoItem
  /\ item_calls = << >>
  /\ batch_results = NoResults
  /\ records_store = EmptyStore
  /\ batch_pc = "for"
  /\ matched_mappings = << >>
  /\ max_workers = 0
  /\ pool_pc = "idle"
  /\ kafka_client = Absent
  /\ offset = Absent
  /\ time_commit = Absent
  /\ now = FirstNow
  /\ mapping_idx = 1
  /\ next_condition = FALSE
  /\ retry_count = 0
  /\ pc = "idle"
  /\ commits = << >>
  /\ task = << >>
  /\ wave_start = 1
  /\ submitted = {}
  /\ finished = {}
  /\ completion = << >>
  /\ early = {}
  /\ yielded = {}
  /\ results = << >>
  /\ call = NoCall
  /\ loop = NoLoop
  /\ EventIdle
  /\ CacheIdle
  /\ HarnessIdle

NextBatch == ProcessBatchItem \/ CommitBatch
SpecBatch == InitBatch /\ [][NextBatch]_vars

(***************************************************************************)
(* The script-execution loop (updated-env-vars-code.py).  os.environ is a  *)
(* function from the names set to their values.  One step is the part of   *)
(* the loop body up to the script (the context is received and its         *)
(* env_vars are set), or the script with everything after it.  The script  *)
(* may itself change os.environ.                                           *)
(***************************************************************************)
SCRIPT_LOOP == "while True: do_ping_pong()"

EnvNames == {"PATH", "TOKEN"}
EnvValues == {"a", "b"}
\* the values os.environ can have
Environs == UNION {[names -> EnvValues] : names \in SUBSET EnvNames}

\* longest env_vars string, in pairs
MaxPairs == 2
\* A pair of env_vars: key=value, or a piece without (or with a second) '='
\* that `key, value = pair.split('=')` cannot unpack.
BAD_PAIR == [key |-> NoneVal, value |-> NoneVal]
Pairs == [key : EnvNames, value : EnvValues] \cup {BAD_PAIR}
EnvStrings == UNION {[1..n -> Pairs] : n \in 0..MaxPairs}

\* os.environ[key] = value
SetEnv(env, key, value) ==
  [n \in DOMAIN env \cup {key} |-> IF n = key THEN value ELSE env[n]]

\* set_env_vars_from_string: the pairs are set one by one, up to the first
\* that cannot be unpacked
RECURSIVE set_env_vars_from_string(_, _)
set_env_vars_from_string(env, pairs) ==
  IF pairs = << >> \/ Head(pairs) = BAD_PAIR THEN env
  ELSE set_env_vars_from_string(SetEnv(env, Head(pairs).key, Head(pairs).value),
                                Tail(pairs))

\* set_env_vars_from_string raises
Unparsable(pairs) == \E i \in DOMAIN pairs : pairs[i] = BAD_PAIR

NoRollbackSystem(env, backup) == env

\* rollback_system: os.environ.clear(); os.environ.update(backup_env_vars)
rollback_system(env, backup) == backup

\* do_ping_pong() to the end of the first try block: the loop ends on a
\* context without a script and when env_vars cannot be parsed
ReceiveContext ==
  /\ entry = SCRIPT_LOOP
  /\ script.pc = "ping"
  /\ \/ /\ script' = [pc |-> "ended", ran |-> FALSE, how |-> NoneVal, left |-> << >>]
        /\ UNCHANGED environ
     \/ \E env_vars \in EnvStrings :
          /\ environ' = set_env_vars_from_string(environ, env_vars)
          /\ script' = [pc |-> IF Unparsable(env_vars) THEN "ended" ELSE "exec",
                        ran |-> FALSE, how |-> NoneVal, left |-> << >>]
  /\ UNCHANGED <<coordinator, loop, eventLocals, alertLocals, cacheLocals, entity_loop,
                 backup_env_vars>>

\* how a script ends, and whether the except clause that reports it raises
\* (contextJSON["args"]["headers"] of a context without them; a failing send)
Endings == {"finished", "raised", "exit"}

\* exec(code, ...) to the end of the loop body.  `native` breaks the loop
\* after the rollback.  When the except clause raises, the exception leaves
\* the loop and the process ends with it.
ExecuteScript ==
  /\ entry = SCRIPT_LOOP
  /\ script.pc = "exec"
  /\ \E left \in Environs, how \in Endings, handler_raises \in BOOLEAN,
        native \in BOOLEAN :
       /\ handler_raises => how # "finished"
       /\ IF handler_raises
          THEN /\ environ' = left
               /\ script' = [pc |-> "crashed", ran |-> TRUE, how |-> how, left |-> left]
          ELSE /\ environ' = rollback_system(left, backup_env_vars)
               /\ script' = [pc |-> IF native THEN "ended" ELSE "ping",
                             ran |-> TRUE, how |-> how, left |-> left]
  /\ UNCHANGED <<coordinator, loop, eventLocals, alertLocals, cacheLocals, entity_loop,
                 backup_env_vars>>

InitScript ==
  /\ entry = SCRIPT_LOOP
  /\ environ \in Environs
  /\ backup_env_vars = environ
  /\ script = [pc |-> "ping", ran |-> FALSE, how |-> NoneVal, left |-> << >>]
  /\ EntitiesIdle
  /\ matched_mappings = << >>
  /\ max_workers = 0
  /\ pool_pc = "idle"
  /\ kafka_client = Absent
  /\ offset = Absent
  /\ time_commit = Absent
  /\ now = FirstNow
  /\ mapping_idx = 1
  /\ next_condition = FALSE
  /\ retry_count = 0
  /\ pc = "idle"
  /\ commits = << >>
  /\ task = << >>
  /\ wave_start = 1
  /\ submitted = {}
  /\ finished = {}
  /\ completion = << >>
  /\ early = {}
  /\ yielded = {}
  /\ results = << >>
  /\ call = NoCall
  /\ loop = NoLoop
  /\ EventIdle
  /\ AlertsIdle
  /\ CacheIdle

NextScript == ReceiveContext \/ ExecuteScript
SpecScript == InitScript /\ [][NextScript]_vars

(***************************************************************************)
(* Properties.                                                             *)
(***************************************************************************)
\* the _commit calls made while mapping m was processed, as offsets in order
CommitsBy(m) ==
  LET mine == SelectSeq(commits, LAMBDA c : c.by = m)
  IN [i \in DOMAIN mine |-> mine[i].offset]

\* how many of them carried offset o
CommitsOf(m, o) == Cardinality({i \in DOMAIN commits : commits[i].by = m /\ commits[i].offset = o})

\* the retry loop of mapping m has a frame (it has dispatched, and was not left)
HasFrame(m) == task[m].calls > 0

\* C1: no (event, mapping) pair is dispatched more than three times, in
\* process_mappings_async and in process_single_mapping alike.
C1_AtMostThreeAttempts == \A m \in Mappings : task[m].calls <= 3

\* C1's case: a mapping of process_mappings_async used all three attempts and
\* its loop was left.
C1_Witness ==
  /\ entry = PROCESS_MAPPINGS_ASYNC
  /\ pc = "for"
  /\ \E m \in Mappings : task[m].calls = 3 /\ task[m].st = DONE /\ task[m].last = RAISED

\* C2: offset + 1 of the event is not committed while one of the event's
\* mappings has not reached a terminal outcome.
C2_NoAdvanceBeforeAllMappingsDone ==
  \A i \in DOMAIN commits :
    (IsSome(offset) /\ commits[i].offset = NextOffset(offset))
      => \A m \in Mappings : task[m].st = DONE

\* C3: the offsets committed for the partition never decrease: after a commit
\* of offset + 1 there is no commit of offset.
C3_CommitsNeverDecrease ==
  \A i, j \in DOMAIN commits :
    (IsSome(offset) /\ i < j /\ commits[i].offset = NextOffset(offset))
      => commits[j].offset # offset

\* the outcomes of mapping m's loop so far were retryable, retryable, SUCCEED,
\* and the else branch has run to its end
RetryRetrySucceed(m) ==
  /\ entry = PROCESS_MAPPINGS_ASYNC
  /\ task[m].calls = 3 /\ task[m].retryables = 2 /\ task[m].last = SUCCEED
  /\ task[m].st = DONE
  /\ pc \in {"while", "for"}

\* each retryable outcome of m was answered by one commit of the current
\* offset, and none by a commit of offset + 1
OneCommitPerRetry(m) ==
  /\ CommitsOf(m, offset) = task[m].retryables
  /\ (IsSome(offset) /\ task[m].last \in result_for_retry)
       => CommitsOf(m, NextOffset(offset)) = 0

\* C4 as claimed: every retryable outcome at offset o is followed, before the
\* next attempt, by exactly one commit of o and never of o + 1; the outcomes
\* retryable, retryable, SUCCEED at offset 42 give the commits 42, 42, 43.
C4_CommitPerRetry_Claimed ==
  \A m \in Mappings :
    (entry = PROCESS_MAPPINGS_ASYNC /\ HasFrame(m)) =>
      /\ OneCommitPerRetry(m)
      /\ (RetryRetrySucceed(m) /\ offset = Some(42))
           => CommitsBy(m) = <<Some(42), Some(42), Some(43)>>

\* C4 amended: with a stream client, every retryable outcome at offset o is
\* followed, before the next attempt, by exactly one commit of o and never of
\* o + 1; without one, no commit is made.  The outcomes retryable, retryable,
\* SUCCEED at offset 42, with a stream client, give the commits 42, 42, and a
\* third commit, of 43, exactly when the code's deadline test fires at the
\* SUCCEED (always, when no deadline was given).
C4_CommitPerRetry ==
  \A m \in Mappings :
    (entry = PROCESS_MAPPINGS_ASYNC /\ HasFrame(m)) =>
      /\ IsSome(kafka_client) => OneCommitPerRetry(m)
      /\ ~IsSome(kafka_client) => CommitsBy(m) = << >>
      /\ (RetryRetrySucceed(m) /\ offset = Some(42) /\ IsSome(kafka_client)) =>
           /\ CommitsBy(m) \in {<<Some(42), Some(42)>>, <<Some(42), Some(42), Some(43)>>}
           /\ ~IsSome(time_commit) => Len(CommitsBy(m)) = 3
           /\ pc = "while" =>
                (Len(CommitsBy(m)) = 3 <=> CommitIsUrgent(TimeLeft(time_commit, now)))

\* C4's case: retryable, retryable, SUCCEED at offset 42 with a stream client,
\* and the commits 42, 42, 43.
C4_Witness ==
  \E m \in Mappings :
    /\ RetryRetrySucceed(m) /\ offset = Some(42) /\ IsSome(kafka_client)
    /\ CommitsBy(m) = <<Some(42), Some(42), Some(43)>>

\* C5: after a non-retryable result at offset o (stream client given), with
\* less than 1.5 s left until the commit deadline offset + 1 is committed at
\* once, and with 1.5 s or more left no commit is made for the outcome.
C5_DeadlineInSeconds ==
  (/\ entry = PROCESS_MAPPINGS_ASYNC
   /\ pc = "while" /\ next_condition
   /\ IsSome(time_commit) /\ IsSome(offset) /\ IsSome(kafka_client))
    => IF Get(time_commit) - now < 1500
       THEN CommitsOf(mapping_idx, NextOffset(offset)) = 1
       ELSE CommitsOf(mapping_idx, NextOffset(offset)) = 0

\* C6 as claimed: three retryable results for a mapping at offset o give
\* exactly three commits of o, and no commit of o + 1 for the mapping.
C6_ThreeRetriesThreeCommits_Claimed ==
  \A m \in Mappings :
    (entry = PROCESS_MAPPINGS_ASYNC /\ task[m].retryables = 3) =>
      /\ CommitsOf(m, offset) = 3
      /\ IsSome(offset) => CommitsOf(m, NextOffset(offset)) = 0

\* C6 amended: three retryable results for a mapping at offset o give exactly
\* three commits of o when a stream client was given and no commit when none
\* was; in both cases offset + 1 is not committed for the mapping.
C6_ThreeRetriesThreeCommits ==
  \A m \in Mappings :
    (entry = PROCESS_MAPPINGS_ASYNC /\ task[m].retryables = 3) =>
      /\ CommitsBy(m) = IF IsSome(kafka_client) THEN <<offset, offset, offset>> ELSE << >>
      /\ IsSome(offset) => CommitsOf(m, NextOffset(offset)) = 0

\* C6's case: the loop of a mapping was left after three retryable results,
\* with three commits of the offset on record.
C6_Witness ==
  \E m \in Mappings :
    /\ entry = PROCESS_MAPPINGS_ASYNC /\ pc = "for"
    /\ task[m].retryables = 3 /\ task[m].st = DONE
    /\ IsSome(offset) /\ CommitsBy(m) = <<offset, offset, offset>>

\* the engine answered mapping m three times, each time with a retryable
\* result, and the task is done
BudgetExhausted(m) == task[m].st = DONE /\ task[m].retryables = 3

C8_NoDispatchAfterTerminalResult ==
  \A m \in Mappings :
    task[m].st = DISPATCHING
      => task[m].last \notin {SUCCEED, INVALID_EVENT, UNDEFINED_ERROR}

\* C9: the dispatch calls executing at one time never outnumber the
\* executor's limit (max_workers, batch_size, max_concurrent).
C9_ConcurrencyBound ==
  entry \in Executors => Cardinality(InDispatch) <= max_workers

\* C9's case: as many dispatch calls execute as the limit allows while a
\* further submitted mapping waits for a worker.
C9_Witness ==
  /\ entry = WITH_THREADS
  /\ Cardinality(InDispatch) = max_workers
  /\ \E m \in submitted : task[m].st = PENDING

\* C10: run_playbook called with no playbook_id argument and none in
\* event.data returns INVALID_EVENT and makes no network call.
C10_MissingPlaybookIdIsInvalidEvent ==
  (/\ call.fn = "run_playbook" /\ call.done
   /\ PlaybookIdMissing(call.args.event, call.args.playbook_id))
    => (call.ret = INVALID_EVENT /\ call.calls = 0)

\* the engine call under test has ended after its POST got the answer `net`
Answered(fn, net) ==
  call.fn = fn /\ call.done /\ call.calls = 1 /\ call.args.net = net

\* C11: run_playbook and ingest classify the answer to their POST alike:
\* HTTP 200 is SUCCEED, HTTP 500 is ENGINE_INTERNAL_ERROR, a connection failure
\* is ENGINE_CONNECTION_ERROR, a request timeout is TIMEOUT and any other
\* exception is UNDEFINED_ERROR.
C11_OutcomeClassification ==
  \A fn \in {"run_playbook", "ingest"} :
    /\ Answered(fn, [status |-> 200]) => call.ret = SUCCEED
    /\ Answered(fn, [status |-> 500]) => call.ret = ENGINE_INTERNAL_ERROR
    /\ Answered(fn, [exc |-> ClientConnectionError]) => call.ret = ENGINE_CONNECTION_ERROR
    /\ Answered(fn, [exc |-> TimeoutError]) => call.ret = TIMEOUT
    /\ Answered(fn, [exc |-> OtherError]) => call.ret = UNDEFINED_ERROR

\* C11's case: ingest has returned TIMEOUT for a request that timed out.
C11_Witness ==
  Answered("ingest", [exc |-> TimeoutError]) /\ call.ret = TIMEOUT

\* C12: whatever the engine answers, an HTTP status other than 200 and 500
\* included, the engine call that got the answer returns a member of Result.
C12_AlwaysAResult ==
  (call.done /\ call.calls = 1) => call.ret \in Result

\* C13: no exception leaves run_playbook or ingest, whatever the event, the
\* tenant_info (with or without tenant_id and engine_api_uri) and the network's
\* answer.
C13_NoExceptionEscapes ==
  call.done => call.ret # RAISED

\* the number, from 0, of the latest attempt of mapping m
LastAttempt(m) == task[m].calls - 1

Max(a, b) == IF a >= b THEN a ELSE b

\* mapping m's loop sleeps after a retryable result, with an attempt to come
WaitsAfterRetryable(m) ==
  /\ task[m].st = RETRY_WAIT
  /\ task[m].calls < max_retries
  /\ entry = PROCESS_MAPPINGS_ASYNC =>
       /\ m = mapping_idx
       /\ pc \in {"retry_sleep", "except_sleep"}
       /\ task[m].last \in result_for_retry

\* C14: after attempt a (counted from 0) returned a retryable result, the wait
\* before the next attempt is max(1, 2^a) seconds, in process_mappings_async
\* and in process_single_mapping alike.
C14_BackoffLaw ==
  \A m \in Mappings :
    WaitsAfterRetryable(m) => task[m].delay = Max(1, 2 ^ LastAttempt(m))

\* C15: a _commit call that raised, on the retry path or on the terminal path,
\* is followed by a pause of 10 time units, after which the loop goes on.
C15_CommitFailurePauses ==
  \A m \in Mappings :
    task[m].commit_error => (task[m].delay = 10 /\ pc \in {"commit_error_sleep", "except_sleep"})

\* the entries of the result list that mapping m contributed
ResultsOf(m) == {i \in DOMAIN results : results[i].by = m}

\* C16: when the executor returns, every submitted task has run to completion
\* and has exactly one entry in the result list, and the entry of a task that
\* ended by an exception is UNDEFINED_ERROR.
C16_OneResultPerTask ==
  (entry \in Executors /\ pool_pc = "return") =>
    /\ \A m \in submitted : task[m].st = DONE
    /\ Len(results) = Cardinality(submitted)
    /\ \A m \in submitted :
         /\ Cardinality(ResultsOf(m)) = 1
         /\ FutureRaised(task[m]) =>
              \A i \in ResultsOf(m) : results[i].result = UNDEFINED_ERROR

\* C17: whatever the engine returns or raises for a mapping, and also when the
\* mapping's retries are used up, process_mappings_async goes on: a mapping's
\* loop is left only after at least one dispatch, every mapping before the
\* current one is done, and the function returns only behind the last mapping.
C17_LaterMappingsDispatched ==
  entry = PROCESS_MAPPINGS_ASYNC =>
    /\ \A m \in Mappings : m < mapping_idx => task[m].st = DONE
    /\ (pc = "for" /\ mapping_idx - 1 \in Mappings) => task[mapping_idx - 1].calls >= 1
    /\ pc = "return" => mapping_idx = Len(matched_mappings) + 1

\* C17's case: the first mapping used up its retries (three retryable results,
\* three commits of the offset) and the second mapping is being dispatched.
C17_Witness ==
  /\ entry = PROCESS_MAPPINGS_ASYNC
  /\ IsSome(offset) /\ CommitsBy(1) = <<offset, offset, offset>>
  /\ pc = "dispatch" /\ mapping_idx = 2 /\ task[2].st = DISPATCHING

\* the lifecycle as claimed: the changes of state a step may make to mapping m
LifecycleAsClaimed(m) ==
  task'[m].st # task[m].st =>
    <<task[m].st, task'[m].st>> \in
      {<<PENDING, DISPATCHING>>, <<DISPATCHING, RETRY_WAIT>>,
       <<RETRY_WAIT, DISPATCHING>>, <<DISPATCHING, DONE>>}

\* the lifecycle the code follows: DONE is also entered from the wait that
\* follows the last attempt
Lifecycle(m) ==
  task'[m].st # task[m].st =>
    <<task[m].st, task'[m].st>> \in
      {<<PENDING, DISPATCHING>>, <<DISPATCHING, RETRY_WAIT>>,
       <<RETRY_WAIT, DISPATCHING>>, <<DISPATCHING, DONE>>, <<RETRY_WAIT, DONE>>}

\* the function that was called has returned (or raised), all its tasks done
Terminated ==
  /\ \A m \in Mappings : task[m].st = DONE
  /\ entry = PROCESS_MAPPINGS_ASYNC => pc = "return"

\* C18 as claimed: every task follows PENDING -> DISPATCHING ->
\* (RETRY_WAIT -> DISPATCHING)* -> DONE, and the function called terminates
\* with every task DONE, whatever the engine and the stream client do.
C18_Terminates_Claimed ==
  /\ [][\A m \in Mappings : LifecycleAsClaimed(m)]_vars
  /\ <>Terminated

\* C18 amended: every task follows PENDING -> DISPATCHING ->
\* (RETRY_WAIT -> DISPATCHING)* -> DONE, except that DONE is also entered from
\* the RETRY_WAIT that follows the last attempt; the function called
\* terminates with every task DONE, whatever the engine and the stream client
\* do.
C18_Terminates ==
  /\ [][\A m \in Mappings : Lifecycle(m)]_vars
  /\ <>Terminated

\* C18's case: process_mappings_async has returned from two mappings, the
\* first of which waited out three retryable results.
C18_Witness ==
  /\ entry = PROCESS_MAPPINGS_ASYNC /\ pc = "return"
  /\ Len(matched_mappings) = 2 /\ \A m \in Mappings : task[m].st = DONE
  /\ IsSome(offset) /\ CommitsBy(1) = <<offset, offset, offset>>

\* C19: a mapping has at most one engine call in flight; while one is in
\* flight the mapping's backoff is not running, and while the backoff runs no
\* call of the mapping is in flight, whatever the other mappings do.
C19_OneDispatchInFlight ==
  \A m \in Mappings :
    /\ task[m].inflight <= 1
    /\ task[m].st = DISPATCHING => (task[m].inflight = 1 /\ task[m].delay = 0)
    /\ task[m].st # DISPATCHING => task[m].inflight = 0
    /\ task[m].st = RETRY_WAIT /\ entry # PROCESS_MAPPINGS_ASYNC => task[m].delay > 0

\* C19's case: in a thread pool a mapping makes its second attempt while a
\* sibling sleeps out its own backoff.
C19_Witness ==
  /\ entry = WITH_THREADS
  /\ \E m, k \in Mappings :
       /\ m # k
       /\ task[m].inflight = 1 /\ task[m].calls = 2
       /\ task[k].st = RETRY_WAIT /\ task[k].delay = 2

\* the coroutines inside a _commit call to the stream client
Outstanding ==
  {c \in Coroutines : loop.co[c].pc \in {"retry_commit", "terminal_commit"}}

\* C20: however the calls of process_mappings_async for events of one
\* partition interleave, at most one _commit call to the stream client is
\* outstanding at any time.
C20_SingleCommitter == Cardinality(Outstanding) <= 1

\* C20's case: one call is inside _commit while another, which has committed
\* before, sleeps before its next attempt.
C20_Witness ==
  \E c, d \in Coroutines :
    /\ c # d
    /\ c \in Outstanding
    /\ loop.co[d].pc = "retry_sleep" /\ loop.co[d].retry_count >= 1
    /\ IsSome(kafka_client)

\* the threads inside run_playbook, between the write of event["extra_info"]
\* and the engine's answer
InRunPlaybook == {m \in Mappings : thread[m].pc \in {"attached", "posted"}}

\* C21: while the mappings of one event are dispatched in parallel, no two
\* dispatches that have written the shared event overlap, and the request sent
\* for mapping m carries extra_info.mapping_id equal to the id of m.
C21_EventNotSharedByTasks ==
  /\ Cardinality(InRunPlaybook) <= 1
  /\ \A m \in Mappings :
       thread[m].pc = "posted" => thread[m].request = [mapping_id |-> matched_mappings[m].id]

\* the wave (from 0) that mapping m belongs to: matched_mappings[i:i+size]
WaveOf(m) == (m - 1) \div max_workers

\* C22: in the batched and the rate-limited executor no task of a wave is
\* submitted before every task of the waves before it has completed and has
\* been collected, whatever the wave size and the list of mappings.
C22_WavesDoNotOverlap ==
  entry \in {IN_BATCHES, WITH_RATE_LIMIT} =>
    \A m \in submitted, k \in Mappings :
      WaveOf(k) < WaveOf(m) => (task[k].st = DONE /\ k \in finished /\ k \in yielded)

\* C22's case: with waves of one task, the second task makes an engine call
\* after the first has waited out a retry and completed.
C22_Witness ==
  /\ entry = IN_BATCHES /\ max_workers = 1 /\ Len(matched_mappings) = 2
  /\ task[2].st = DISPATCHING /\ task[2].calls = 2
  /\ 1 \in finished

\* C23: in the rate-limited executor the clock moves on by at least
\* min_interval between the completion of a wave (all its tasks finished and
\* collected) and the step that opens the next wave, before which no task of
\* a later wave is submitted.
C23_MinIntervalBetweenWaves ==
  [][(entry = WITH_RATE_LIMIT /\ wave_start' # wave_start) =>
       /\ Wave \subseteq finished \cap yielded
       /\ \A m \in submitted : m < wave_start + max_workers
       /\ now' - now >= min_interval]_vars

\* C23's case: the second wave makes an engine call, min_interval or more
\* after the first wave was drained.
C23_Witness ==
  /\ entry = WITH_RATE_LIMIT /\ max_workers = 1 /\ Len(matched_mappings) = 2
  /\ 1 \in yielded /\ task[2].st = DISPATCHING
  /\ now >= FirstNow + min_interval

\* the tasks that returned a result, in the order in which they finished
CompletedWithResult == SelectSeq(completion, LAMBDA m : ~FutureRaised(task[m]))

\* C24: the thread-pool and the multiprocessing executor return the results in
\* the order in which the tasks completed: the i-th entry of the list returned
\* is the result of the i-th task to finish (of those that returned a result).
C24_ResultsInCompletionOrder ==
  (entry \in {WITH_THREADS, WITH_MULTIPROCESSING} /\ pool_pc = "return") =>
    /\ Len(results) = Len(CompletedWithResult)
    /\ \A i \in DOMAIN results :
         /\ results[i].by = CompletedWithResult[i]
         /\ results[i].result = task[results[i].by].result

\* an aoengine mapping whose first engine call was answered by HTTP 200
\* (SUCCEED after one call), the else branch just over, with 5 s or more to
\* the commit deadline
SucceededAtOnce(m) ==
  /\ entry = PROCESS_MAPPINGS_ASYNC
  /\ matched_mappings[m].playbook_type = AOENGINE
  /\ m = mapping_idx /\ pc = "while" /\ next_condition
  /\ task[m].calls = 1 /\ task[m].last = SUCCEED
  /\ IsSome(offset) /\ IsSome(kafka_client)
  /\ IsSome(time_commit) /\ Get(time_commit) - now >= 5000

\* C25: for an aoengine mapping answered by HTTP 200 on the first attempt,
\* with the commit deadline far away, the result is SUCCEED after exactly one
\* call, no commit is issued, and offset + 1 is recorded as the pending commit.
C25_SuccessEndToEnd ==
  \A m \in Mappings :
    SucceededAtOnce(m) =>
      /\ task[m].st = DONE /\ task[m].retryables = 0
      /\ CommitsBy(m) = << >>
      /\ PendingCommit = NextOffset(offset)

\* the entries of results.success and of results.failed for the item at
\* place i of alerts_data
SuccessOf(i) == {k \in DOMAIN batch_results.success : batch_results.success[k].item = i}
FailedOf(i) == {k \in DOMAIN batch_results.failed : batch_results.failed[k].item = i}

\* the items the for loop has passed
Processed == 1..(alert_idx - 1)

LacksTenantOrBody(item) ==
  item.tenant = NoneVal \/ item.body = Absent \/ item.body = Some(EmptyDict)

\* the commit and rollback calls the store received for item i, in order
ClosingOf(i) ==
  LET mine == SelectSeq(records_store.closing, LAMBDA c : c.item = i)
  IN [k \in DOMAIN mine |-> [op |-> mine[k].op, tenant |-> mine[k].tenant]]

Closes(op, tenant) == [op |-> op, tenant |-> tenant]

\* the item at place i was processed with tenant and body
ValidItems == {i \in Processed : \A k \in FailedOf(i) : batch_results.failed[k].error # MISSING_DATA}
TenantOf(i) ==
  IF SuccessOf(i) # {} THEN batch_results.success[CHOOSE k \in SuccessOf(i) : TRUE].tenant
  ELSE batch_results.failed[CHOOSE k \in FailedOf(i) : TRUE].tenant

\* the rows committed for the items reported in results.success are in the store
SuccessesStayCommitted ==
  \A i \in ValidItems :
    SuccessOf(i) # {} => [tenant |-> TenantOf(i), item |-> i] \in records_store.committed

\* C27 as claimed: the transaction of each item that has tenant and body is
\* closed by exactly one call: commit(tenant) when every creation step
\* succeeded, rollback(tenant) when a step raised; the rollback is for the
\* item's tenant and does not undo the commit of an earlier successful item.
C27_OneClosingCall_Claimed ==
  entry = CREATE_ALERTS_BATCH =>
    /\ \A i \in ValidItems :
         ClosingOf(i) = IF SuccessOf(i) # {} THEN <<Closes("commit", TenantOf(i))>>
                        ELSE <<Closes("rollback", TenantOf(i))>>
    /\ SuccessesStayCommitted

\* the latest pass reached records_store.commit: every creation step succeeded
ReachedCommit ==
  /\ item_calls # << >>
  /\ \E k \in DOMAIN item_calls : item_calls[k].op = "commit"

\* C27 amended: the transaction of each item that has tenant and body is closed
\* by commit(tenant) alone when every creation step succeeded and the commit
\* went through, by rollback(tenant) alone when a creation step raised, and by
\* commit(tenant) followed by rollback(tenant) when every creation step
\* succeeded and the commit itself raised; every call is for the item's tenant,
\* no row of a failed item is left pending, and the rows committed for an
\* earlier successful item stay committed.
C27_OneClosingCall ==
  entry = CREATE_ALERTS_BATCH =>
    /\ \A i \in ValidItems :
         LET t == TenantOf(i) IN
           IF SuccessOf(i) # {} THEN ClosingOf(i) = <<Closes("commit", t)>>
           ELSE /\ ClosingOf(i) \in {<<Closes("rollback", t)>>,
                                     <<Closes("commit", t), Closes("rollback", t)>>}
                /\ i = alert_idx - 1 => (Len(ClosingOf(i)) = 2 <=> ReachedCommit)
    /\ records_store.pending = {}
    /\ SuccessesStayCommitted

\* C27's case: the first item was committed for tenant1; the second, for the
\* same tenant, failed in a creation step and was rolled back.
C27_Witness ==
  /\ entry = CREATE_ALERTS_BATCH /\ alert_idx = 3
  /\ ClosingOf(1) = <<Closes("commit", "tenant1")>>
  /\ ClosingOf(2) = <<Closes("rollback", "tenant1")>>
  /\ Len(item_calls) >= 3
  /\ [tenant |-> "tenant1", item |-> 1] \in records_store.committed

\* C28: an item without tenant or without body, or an empty item, is entered
\* in results.failed and in it only, and causes no call at all: no
\* records_store.create and no records_store.commit.
C28_InvalidItemTouchesNothing ==
  (entry = CREATE_ALERTS_BATCH /\ alert_idx > 1 /\ LacksTenantOrBody(alert_item)) =>
    LET i == alert_idx - 1 IN
      /\ item_calls = << >>
      /\ ClosingOf(i) = << >>
      /\ SuccessOf(i) = {}
      /\ \E k \in FailedOf(i) :
           batch_results.failed[k] =
             [item |-> i, tenant |-> alert_item.tenant, error |-> MISSING_DATA]
      /\ \A r \in records_store.pending \cup records_store.committed : r.item # i

\* C28's case: after an item that was committed, an item with a tenant and no
\* body.
C28_Witness ==
  /\ entry = CREATE_ALERTS_BATCH /\ alert_idx = 3
  /\ SuccessOf(1) # {}
  /\ alert_item = [tenant |-> "tenant1", body |-> Absent]
  /\ FailedOf(2) # {}

\* the create calls of the latest pass on `table`
CreatesOn(table) ==
  Cardinality({k \in DOMAIN item_calls :
                 item_calls[k].op = "create" /\ item_calls[k].table = table})

\* the entities of the latest item for which the query found no row
NewEntities ==
  {k \in DOMAIN BodyOf(alert_item).entity : BodyOf(alert_item).entity[k] = Absent}

C30_CachedEntryServed_Claimed ==
  (got # NoGet /\ ~got.force_refresh /\ IsSome(got.cached)) =>
    /\ got.ret = Loads(Get(got.cached))
    /\ got.queries = 0
    /\ got.writes = 0

\* C30: a call of get_mappings without force_refresh, made while the tenant's
\* key held an entry and whose read of the key did not raise, returned the
\* list of that entry and made no Postgres query and no cache write.
C30_CachedEntryServed ==
  (got # NoGet /\ ~got.force_refresh /\ IsSome(got.cached) /\ ~got.read_raised) =>
    /\ got.ret = Loads(Get(got.cached))
    /\ got.queries = 0
    /\ got.writes = 0

\* a call served a list of one mapping from the entry of its tenant
C30_Witness ==
  /\ got # NoGet
  /\ ~got.force_refresh
  /\ IsSome(got.cached)
  /\ ~got.read_raised
  /\ Len(got.ret) = 1
  /\ got.ret = Loads(Get(got.cached))

\* a call of mapping1.py's get_mappings with force_refresh=True
ForcedRefresh == got # NoGet /\ retriever = MAPPING1 /\ got.force_refresh

\* C31 as stated: a call of get_mappings with force_refresh=True did not read
\* the cache, queried Postgres, and left in the tenant's key exactly the list
\* it returned.
C31_ForcedRefresh_Claimed ==
  ForcedRefresh =>
    /\ got.reads = 0
    /\ got.queries = 1
    /\ got.left = Some(Dumps(got.ret))

\* the call after a forced refresh whose setex went through: for the same
\* tenant, without force_refresh, the entry not expired and read without error
FollowsRefresh ==
  /\ ForcedRefresh
  /\ ~got.write_raised
  /\ IsSome(redis_cache[got.tenant_id])
  /\ got'.tenant_id = got.tenant_id
  /\ ~got'.force_refresh
  /\ ~got'.read_raised

\* C31: a call of get_mappings with force_refresh=True did not read the cache
\* and queried Postgres; when its setex did not raise, it left in the tenant's
\* key exactly the list it returned, and a following call for the tenant
\* without force_refresh, reading the entry before it expires, returns that
\* same list.
C31_ForcedRefresh ==
  /\ [](ForcedRefresh =>
          /\ got.reads = 0
          /\ got.queries = 1
          /\ ~got.write_raised => got.left = Some(Dumps(got.ret)))
  /\ [][FollowsRefresh => got'.ret = got.ret /\ got'.queries = 0]_vars

\* a forced refresh replaced an entry by the list of one mapping it returned
C31_Witness ==
  /\ ForcedRefresh
  /\ ~got.write_raised
  /\ IsSome(got.cached)
  /\ got.cached # got.left
  /\ Len(got.ret) = 1
  /\ got.left = Some(Dumps(got.ret))

\* C32: a call of get_mappings under which the read of the cache or the write
\* to it failed did not raise: after a failed read it queried Postgres, and
\* after a failed write it returned the list fetched from Postgres.
C32_RedisFailureNotRaised ==
  (got # NoGet /\ (got.read_raised \/ got.write_raised)) =>
    /\ got.raised = NoneVal
    /\ got.queries = 1
    /\ got.ret = parse_mappings(retriever,
                   fetch_mappings_from_postgres(retriever, pg_rows, got.tenant_id,
                                                got.query_failed))

\* a call whose cache read failed returned one mapping from Postgres, and
\* the write of it failed too
C32_Witness ==
  /\ got # NoGet
  /\ got.read_raised
  /\ got.write_raised
  /\ IsSome(got.cached)
  /\ got.raised = NoneVal
  /\ Len(got.ret) = 1

\* C35: a call of mapping1.py's get_mappings whose Postgres query failed
\* returned the empty list and left the tenant's cache entry as it found it.
C35_FailedFetchNotCached ==
  (got # NoGet /\ retriever = MAPPING1 /\ got.query_failed) =>
    /\ got.ret = << >>
    /\ got.left = got.cached

\* C39: a call of modify_get_and_transform_mappings called the retriever
\* exactly when now > update_time; when it did not, it returned the _mappings
\* it was passed and left update_time as it was; when it did, it set
\* update_time to now + update_interval * 1000; and no call lowered update_time.
C39_RefreshOnlyWhenDue ==
  /\ [](refreshed # NoRefresh =>
          /\ refreshed.called <=> refreshed.now > UpdateTimeOf(refreshed)
          /\ ~refreshed.called =>
               /\ refreshed.ret = refreshed._mappings
               /\ tenant_info.update_time = refreshed.update_time
          /\ refreshed.called =>
               /\ got.ret = refreshed.ret
               /\ UpdateTimeOf(tenant_info) =
                    refreshed.now + UpdateIntervalOf(tenant_info) * 1000)
  /\ [][UpdateTimeOf(tenant_info') >= UpdateTimeOf(tenant_info)]_vars

\* a call before update_time returned the one mapping it was passed, after an
\* earlier call had refreshed
C39_Witness ==
  /\ refreshed # NoRefresh
  /\ ~refreshed.called
  /\ IsSome(tenant_info.update_time)
  /\ refreshed.now <= UpdateTimeOf(tenant_info)
  /\ Len(refreshed.ret) = 1

\* C38: within one body no (entity_type_key, value) has more than one row
\* created in the entity table, and every entity_alert_case_mapping row of a
\* key carries one and the same entity id.
C38_EntityCreatedOnce ==
  entity_loop # NoEntityLoop =>
    /\ \A i, k \in DOMAIN entity_loop.created :
         entity_loop.created[i].key = entity_loop.created[k].key => i = k
    /\ \A i, k \in DOMAIN entity_loop.mapped :
         entity_loop.mapped[i].key = entity_loop.mapped[k].key =>
           entity_loop.mapped[i].entity_id = entity_loop.mapped[k].entity_id

\* C33: when the multi-tenant create_alerts_batch has returned 201, every
\* row the batch created, for whichever tenant, is committed: none is left
\* pending.
C33_AllTenantsCommitted ==
  (entry = CREATE_ALERTS_BATCH_MULTI /\ batch_pc = "return") =>
    /\ records_store.pending = {}
    /\ \A i \in 1..alerts_len :
         \E r \in records_store.committed :
           r.item = i /\ r.tenant = batch_results.success[i].tenant

\* C34: when the multi-tenant create_alerts_batch has ended by an exception,
\* no row of the batch is committed and no row of it is left pending for any
\* tenant.
C34_AllOrNothing ==
  (entry = CREATE_ALERTS_BATCH_MULTI /\ batch_pc = "raised") =>
    /\ records_store.committed = {}
    /\ records_store.pending = {}

\* process_mappings_async called with an offset and without a commit deadline
NoCommitDeadline ==
  entry = PROCESS_MAPPINGS_ASYNC /\ ~IsSome(time_commit) /\ IsSome(offset)

\* the else branch has run for the mapping of the loop
AfterTerminalOutcome == pc = "while" /\ next_condition

\* C36 as stated: without a commit deadline, after a non-retryable outcome at
\* offset o exactly one commit of o + 1 has been made for the mapping.
C36_CommitWithoutDeadline_Claimed ==
  (NoCommitDeadline /\ AfterTerminalOutcome) =>
    CommitsOf(mapping_idx, NextOffset(offset)) = 1

\* C36: without a commit deadline and with a stream client, the step in which
\* a non-retryable outcome at offset o arrives makes the commit of o + 1, and
\* no mapping has more than one such commit: exactly one once its else branch
\* has run, none before its turn.
C36_CommitWithoutDeadline ==
  /\ []((NoCommitDeadline /\ IsSome(kafka_client)) =>
          /\ AfterTerminalOutcome => CommitsOf(mapping_idx, NextOffset(offset)) = 1
          /\ \A m \in Mappings :
               /\ CommitsOf(m, NextOffset(offset)) <= 1
               /\ m > mapping_idx => CommitsOf(m, NextOffset(offset)) = 0)
  /\ [][(/\ NoCommitDeadline /\ IsSome(kafka_client)
         /\ pc = "dispatch" /\ pc' # "dispatch"
         /\ task'[mapping_idx].last \notin result_for_retry \cup {RAISED})
          => commits' = Append(commits, CommitCall(NextOffset(offset)))]_vars

\* two mappings, each ended by a non-retryable outcome, each with its one
\* commit of offset + 1, no deadline given
C36_Witness ==
  /\ NoCommitDeadline /\ IsSome(kafka_client)
  /\ AfterTerminalOutcome
  /\ mapping_idx = 2
  /\ CommitsOf(1, NextOffset(offset)) = 1
  /\ CommitsOf(2, NextOffset(offset)) = 1

\* the executors that work in waves
InWaves == entry \in {IN_BATCHES, WITH_RATE_LIMIT}

\* the mappings handed to the executor of the current wave so far
SubmittedInWave == {m \in submitted : m >= wave_start}

\* C37: in the batched and rate-limited executors every wave starts at a
\* multiple of the wave size and holds at most that many mappings; a mapping
\* is handed to an executor once, in the wave that is current, never in a
\* later one again; process_single_mapping starts for a mapping only after
\* that and never a second time; and at the return every mapping has been
\* in a wave and has run.
C37_EachMappingInOneWave ==
  /\ [](InWaves =>
          /\ (wave_start - 1) % max_workers = 0
          /\ Cardinality(SubmittedInWave) <= max_workers
          /\ \A m \in Mappings :
               /\ m < wave_start => m \in submitted
               /\ m \notin submitted => task[m].st = PENDING
          /\ pool_pc = "return" => submitted = Mappings /\ finished = Mappings)
  /\ [][InWaves =>
          /\ submitted \subseteq submitted'
          /\ wave_start' >= wave_start
          /\ \A m \in submitted' \ submitted : m >= wave_start
          /\ \A m \in Mappings : task[m].st # PENDING => task'[m].st # PENDING]_vars

\* two mappings in two waves of one, both run, the executor returned
C37_Witness ==
  /\ InWaves
  /\ max_workers = 1
  /\ Len(matched_mappings) = 2
  /\ pool_pc = "return"
  /\ submitted = Mappings
  /\ \A m \in Mappings : task[m].st = DONE

\* a script was executed and the loop went on past it
ScriptRanOn == script.pc \in {"ping", "ended"} /\ script.ran

\* C40: when a script was executed and the loop went on past it (to the next
\* context or to its end), however the script ended, os.environ is what it
\* was at startup.
C40_EnvironmentRestored ==
  (entry = SCRIPT_LOOP /\ ScriptRanOn) => environ = backup_env_vars

\* a script left an environment with TOKEN set and raised; the loop is back
\* at do_ping_pong with the startup environment, which has TOKEN unset
C40_Witness ==
  /\ entry = SCRIPT_LOOP
  /\ script.pc = "ping"
  /\ script.ran
  /\ script.how = "raised"
  /\ "TOKEN" \in DOMAIN script.left
  /\ environ = backup_env_vars
  /\ "TOKEN" \notin DOMAIN environ

====
